---- MODULE Spec2Model ----
(***************************************************************************)
(* A model of rstructor's validate-and-retry coordinator                   *)
(* (generate_with_retry_with_history), of the Gemini request path that     *)
(* feeds it (GeminiClient::materialize_internal), and of the schema        *)
(* adaptation / response reshaping for adjacently tagged enums             *)
(* (prepare_gemini_schema, extract_adjacently_tagged_info,                 *)
(* transform_internally_to_adjacently_tagged).                             *)
(***************************************************************************)
EXTENDS Integers, Sequences, FiniteSets, TLC

(***************************************************************************)
(* Bounds of the model.                                                    *)
(***************************************************************************)
\* Largest ordinary max_retries value explored (besides usize::MAX).
MaxRetriesExplored == 3
\* Width in bits of the modelled usize (the program's is 64).
UsizeBits == 5
\* Largest number of variants of a modelled enum.
MaxVariants == 2

USIZE_MAX == 2^UsizeBits - 1

(***************************************************************************)
(* serde_json::Value.  Every value is a record with the same fields so     *)
(* that any two values can be compared: k is the kind, s the payload of a  *)
(* string, n the payload of a number or boolean, a the elements of an      *)
(* array, o the map of an object (a function from key strings).            *)
(***************************************************************************)
EmptyMap == [key \in {} |-> 0]

JNull == [k |-> "null", s |-> "", n |-> 0, a |-> <<>>, o |-> EmptyMap]

JStr(str) == [k |-> "str", s |-> str, n |-> 0, a |-> <<>>, o |-> EmptyMap]

JNum(num) == [k |-> "num", s |-> "", n |-> num, a |-> <<>>, o |-> EmptyMap]

JBool(b) == [k |-> "bool", s |-> "", n |-> IF b THEN 1 ELSE 0, a |-> <<>>, o |-> EmptyMap]

JArr(seq) == [k |-> "arr", s |-> "", n |-> 0, a |-> seq, o |-> EmptyMap]

JObj(map) == [k |-> "obj", s |-> "", n |-> 0, a |-> <<>>, o |-> map]

IsObj(j) == j.k = "obj"

IsArr(j) == j.k = "arr"

IsStr(j) == j.k = "str"

IsBool(j) == j.k = "bool"

\* Map::contains_key on a Value that may not be an object (Value::get).
Has(j, key) == IsObj(j) /\ key \in DOMAIN j.o

\* Map::insert
MapPut(map, key, v) == [z \in DOMAIN map \cup {key} |-> IF z = key THEN v ELSE map[z]]

\* Map::remove
MapDel(map, key) == [z \in DOMAIN map \ {key} |-> map[z]]

\* obj.insert(key, v) on an object value
Put(j, key, v) == JObj(MapPut(j.o, key, v))

\* obj.remove(key) on an object value
Del(j, key) == JObj(MapDel(j.o, key))

\* obj.get(key).and_then(|t| t.as_str()) == Some(str)
StrAt(j, key, str) == Has(j, key) /\ IsStr(j.o[key]) /\ j.o[key].s = str

\* The elements of a sequence, as a set.
Range(seq) == {seq[i] : i \in 1..Len(seq)}

\* Vec<Value> of strings from a sequence of TLA+ strings.
StrArr(names) == JArr([i \in 1..Len(names) |-> JStr(names[i])])

(***************************************************************************)
(* Rust string operations used by the adapters.  Positions are 1-based;    *)
(* 0 stands for None.                                                      *)
(***************************************************************************)
MinOf(S) == CHOOSE x \in S : \A y \in S : x <= y

StartsAt(str, pat, i) == i + Len(pat) - 1 <= Len(str) /\ SubSeq(str, i, i + Len(pat) - 1) = pat

\* str::find
StrFind(str, pat) ==
  LET hits == {i \in 1..Len(str) : StartsAt(str, pat, i)}
  IN IF hits = {} THEN 0 ELSE MinOf(hits)

\* str::contains
StrContains(str, pat) == StrFind(str, pat) # 0

\* str::trim (spaces are the only whitespace of the modelled texts)
RECURSIVE TrimStart(_)
TrimStart(str) == IF Len(str) > 0 /\ SubSeq(str, 1, 1) = " " THEN TrimStart(SubSeq(str, 2, Len(str))) ELSE str

RECURSIVE TrimEnd(_)
TrimEnd(str) == IF Len(str) > 0 /\ SubSeq(str, Len(str), Len(str)) = " " THEN TrimEnd(SubSeq(str, 1, Len(str) - 1)) ELSE str

Trim(str) == TrimEnd(TrimStart(str))

\* str::split(',') as a sequence of strings
RECURSIVE SplitComma(_)
SplitComma(str) ==
  LET p == StrFind(str, ",")
  IN IF p = 0 THEN <<str>>
     ELSE <<SubSeq(str, 1, p - 1)>> \o SplitComma(SubSeq(str, p + 1, Len(str)))

\* Iterator::filter on a sequence of strings: drop the empty ones
RECURSIVE NonEmptyOnly(_)
NonEmptyOnly(seq) ==
  IF seq = <<>> THEN <<>>
  ELSE IF Head(seq) = "" THEN NonEmptyOnly(Tail(seq))
  ELSE <<Head(seq)>> \o NonEmptyOnly(Tail(seq))

\* [String]::join(", ")
RECURSIVE JoinComma(_)
JoinComma(seq) ==
  IF seq = <<>> THEN ""
  ELSE IF Len(seq) = 1 THEN seq[1]
  ELSE seq[1] \o ", " \o JoinComma(Tail(seq))

\* Vec::dedup: drop every element equal to its predecessor
RECURSIVE Dedup(_)
Dedup(seq) ==
  IF Len(seq) <= 1 THEN seq
  ELSE LET rest == Dedup(Tail(seq))
       IN IF seq[1] = rest[1] THEN rest ELSE <<seq[1]>> \o rest

(***************************************************************************)
(* Iteration order of serde_json::Map (a BTreeMap: keys in sorted order).  *)
(* KeyOrder lists the property names of the modelled schemas in that       *)
(* order.                                                                  *)
(***************************************************************************)
KeyOrder ==
  <<"boxedChildren", "boxed_children", "branches", "byName", "by_name", "children",
    "counted", "counts", "data", "examples", "fileSize", "file_size", "forest", "id", "key1",
    "key2", "key3", "label", "leaf", "linked", "maybeChildren", "maybeLeaf", "maybe_children",
    "maybe_leaf", "name", "next", "note", "output", "parent", "status", "tags", "title",
    "tokens_used", "tree", "treeIndex", "tree_index", "value">>

KeyRank(key) == CHOOSE i \in 1..Len(KeyOrder) : KeyOrder[i] = key

\* The key a `for (key, _) in map` loop visits last among the keys of S.
LastKey(S) == CHOOSE key \in S : \A other \in S : KeyRank(other) <= KeyRank(key)

(***************************************************************************)
(* Enum descriptors and the derive macro's schema for an adjacently        *)
(* tagged enum (#[serde(tag = ..., content = ...)]).                       *)
(*   field type : [base : "String" | "u32", option : BOOLEAN]              *)
(*   field      : [name, ty]   (name is "" for a tuple field)              *)
(*   variant    : [name, kind : "unit" | "tuple" | "named", fields]        *)
(*   enum       : [name, tag, content, variants]                           *)
(***************************************************************************)
\* A syn::Type: a path type is its first segment's identifier and its generic
\* arguments; a tuple type (Type::Tuple, not a path) has the name "" and its
\* elements as arguments.
Ty(name, args) == [name |-> name, args |-> args]

PathTy(name) == Ty(name, <<>>)

OptionOf(ty) == Ty("Option", <<ty>>)

BoxOf(ty) == Ty("Box", <<ty>>)

VecOf(ty) == Ty("Vec", <<ty>>)

MapOf(val_ty) == Ty("HashMap", <<PathTy("String"), val_ty>>)

TupleOf(elems) == Ty("", elems)

FieldType(base, option) == IF option THEN OptionOf(PathTy(base)) ELSE PathTy(base)

Field(name, ty) == [name |-> name, ty |-> ty]

Variant(name, kind, fields) == [name |-> name, kind |-> kind, fields |-> fields]

\* type_utils::is_option_type
is_option_type(ty) == ty.name = "Option"

\* type_utils::get_option_inner_type
get_option_inner_type(ty) ==
  IF ty.name = "Option" /\ Len(ty.args) > 0 THEN ty.args[1] ELSE ty

StringNames == {"String", "str", "char"}

IntegerNames == {"i8", "i16", "i32", "i64", "i128", "isize",
                 "u8", "u16", "u32", "u64", "u128", "usize"}

ArrayNames == {"Vec", "Array", "HashSet", "BTreeSet"}

MapNames == {"HashMap", "BTreeMap"}

DateNames == {"DateTime", "NaiveDateTime", "NaiveDate", "Date", "Utc", "Local"}

\* type_utils::get_schema_type_from_rust_type (Option<T> is unwrapped)
RECURSIVE get_schema_type_from_rust_type(_)
get_schema_type_from_rust_type(ty) ==
  IF ty.name = "" THEN "object"
  ELSE IF ty.name \in StringNames THEN "string"
  ELSE IF ty.name = "bool" THEN "boolean"
  ELSE IF ty.name \in IntegerNames THEN "integer"
  ELSE IF ty.name \in {"f32", "f64"} THEN "number"
  ELSE IF ty.name \in ArrayNames THEN "array"
  ELSE IF ty.name \in MapNames THEN "object"
  ELSE IF ty.name \in DateNames \cup {"Uuid"} THEN "string"
  ELSE IF ty.name = "Option"
    THEN IF Len(ty.args) > 0 THEN get_schema_type_from_rust_type(ty.args[1]) ELSE "null"
  ELSE "object"

\* enum_schema::generate_field_schema for a primitive type; desc = "" is None
generate_field_schema(ty, desc) ==
  LET base == [type |-> JStr(get_schema_type_from_rust_type(ty))]
  IN IF desc = "" THEN JObj(base) ELSE JObj(MapPut(base, "description", JStr(desc)))

\* The tag property {"type": "string", "enum": [variant name]}
TagSchema(variant_name) == JObj([type |-> JStr("string"), enum |-> StrArr(<<variant_name>>)])

\* The object every adjacent variant ends with (schema_obj)
VariantObject(properties_map, required_vec, description) ==
  JObj([type |-> JStr("object"),
        properties |-> JObj(properties_map),
        required |-> StrArr(required_vec),
        description |-> JStr(description),
        additionalProperties |-> JBool(FALSE)])

\* The names of the non-Option fields, in declaration order (required_fields)
RECURSIVE RequiredFieldNames(_)
RequiredFieldNames(fields) ==
  IF fields = <<>> THEN <<>>
  ELSE IF is_option_type(Head(fields).ty) THEN RequiredFieldNames(Tail(fields))
  ELSE <<Head(fields).name>> \o RequiredFieldNames(Tail(fields))

\* content_schema of a named-field variant
NamedContentSchema(fields) ==
  LET content_properties ==
        [key \in {fields[i].name : i \in 1..Len(fields)} |->
           LET f == CHOOSE f \in Range(fields) : f.name = key
           IN generate_field_schema(f.ty, "Field " \o key)]
      required_fields == RequiredFieldNames(fields)
      base == [type |-> JStr("object"),
               properties |-> JObj(content_properties),
               additionalProperties |-> JBool(FALSE)]
  IN IF required_fields # <<>>
       THEN JObj(MapPut(base, "required", StrArr(required_fields)))
       ELSE JObj(base)

\* items_schema of a tuple variant with two or more fields
TupleContentSchema(fields) ==
  JObj([type |-> JStr("array"),
        items |-> JArr([i \in 1..Len(fields) |-> generate_field_schema(fields[i].ty, "")]),
        minItems |-> JNum(Len(fields)),
        maxItems |-> JNum(Len(fields))])

\* generate_complex_enum_schema, the is_adjacent branch, for one variant
AdjacentVariantSchema(v, tag_name, content_name) ==
  LET description == "Variant " \o v.name
      tag_only == [z \in {tag_name} |-> TagSchema(v.name)]
  IN CASE v.kind = "unit" ->
            VariantObject(tag_only, <<tag_name>>, description)
       [] v.kind = "tuple" /\ Len(v.fields) = 1 ->
            VariantObject(MapPut(tag_only, content_name, generate_field_schema(v.fields[1].ty, "")),
                          IF is_option_type(v.fields[1].ty) THEN <<tag_name>> ELSE <<tag_name, content_name>>,
                          description)
       [] v.kind = "tuple" /\ Len(v.fields) # 1 ->
            VariantObject(MapPut(tag_only, content_name, TupleContentSchema(v.fields)),
                          <<tag_name, content_name>>, description)
       [] v.kind = "named" ->
            VariantObject(MapPut(tag_only, content_name, NamedContentSchema(v.fields)),
                          <<tag_name, content_name>>, description)

\* generate_simple_enum_schema: every variant is a unit variant
generate_simple_enum_schema(e) ==
  JObj([type |-> JStr("string"),
        enum |-> StrArr([i \in 1..Len(e.variants) |-> e.variants[i].name]),
        title |-> JStr(e.name)])

\* properties_map of a named-field variant of an internally tagged enum: the
\* tag, then one insert for each field in declaration order
RECURSIVE InternalProperties(_, _, _)
InternalProperties(fields, tag_name, variant_name) ==
  IF fields = <<>> THEN [z \in {tag_name} |-> TagSchema(variant_name)]
  ELSE MapPut(InternalProperties(SubSeq(fields, 1, Len(fields) - 1), tag_name, variant_name),
              fields[Len(fields)].name,
              generate_field_schema(fields[Len(fields)].ty, "Field " \o fields[Len(fields)].name))

\* generate_complex_enum_schema, the is_internal branch, for one variant; a
\* tuple variant's payload goes under the property "value"
InternalVariantSchema(v, tag_name) ==
  LET description == "Variant " \o v.name
      tag_only == [z \in {tag_name} |-> TagSchema(v.name)]
  IN CASE v.kind = "unit" ->
            VariantObject(tag_only, <<tag_name>>, description)
       [] v.kind = "tuple" /\ Len(v.fields) = 1 ->
            VariantObject(MapPut(tag_only, "value", generate_field_schema(v.fields[1].ty, "")),
                          IF is_option_type(v.fields[1].ty) THEN <<tag_name>> ELSE <<tag_name, "value">>,
                          description)
       [] v.kind = "tuple" /\ Len(v.fields) # 1 ->
            VariantObject(MapPut(tag_only, "value", TupleContentSchema(v.fields)),
                          <<tag_name, "value">>, description)
       [] v.kind = "named" ->
            VariantObject(InternalProperties(v.fields, tag_name, v.name),
                          <<tag_name>> \o RequiredFieldNames(v.fields), description)

\* generate_complex_enum_schema for an adjacently tagged enum and, when the
\* enum has no content attribute (content = ""), an internally tagged one
generate_complex_enum_schema(e) ==
  JObj([oneOf |-> JArr([i \in 1..Len(e.variants) |->
                          IF e.content # ""
                            THEN AdjacentVariantSchema(e.variants[i], e.tag, e.content)
                            ELSE InternalVariantSchema(e.variants[i], e.tag)]),
        title |-> JStr(e.name)])

\* generate_enum_schema
generate_enum_schema(e) ==
  IF \A i \in 1..Len(e.variants) : e.variants[i].fields = <<>>
    THEN generate_simple_enum_schema(e)
    ELSE generate_complex_enum_schema(e)

(***************************************************************************)
(* Gemini schema adaptation (src/backend/utils.rs).                        *)
(***************************************************************************)
\* Option<(tag_key, content_key, tag_value)>
NoDetect == [some |-> FALSE, tag |-> "", content |-> "", value |-> ""]

\* detect_adjacently_tagged_variant
detect_adjacently_tagged_variant(variant) ==
  IF ~(/\ IsObj(variant)
       /\ StrAt(variant, "type", "object")
       /\ Has(variant, "properties") /\ IsObj(variant.o["properties"])
       /\ Has(variant, "required") /\ IsArr(variant.o["required"])
       /\ Len(variant.o["required"].a) = 2)
    THEN NoDetect
    ELSE
      LET properties == variant.o["properties"].o
          IsTag(prop) == /\ Has(prop, "enum") /\ IsArr(prop.o["enum"])
                         /\ Len(prop.o["enum"].a) = 1
                         /\ IsStr(prop.o["enum"].a[1])
          IsContent(prop) == StrAt(prop, "type", "object") /\ Has(prop, "properties")
          tags == {key \in DOMAIN properties : IsObj(properties[key]) /\ IsTag(properties[key])}
          contents == {key \in DOMAIN properties \ tags :
                         IsObj(properties[key]) /\ IsContent(properties[key])}
      IN IF tags = {} \/ contents = {} THEN NoDetect
         ELSE LET tag_key == LastKey(tags)
              IN [some |-> TRUE, tag |-> tag_key, content |-> LastKey(contents),
                  value |-> properties[tag_key].o["enum"].a[1].s]

\* required_array.retain(|v| v.as_str() != Some(content_key))
RECURSIVE RetainNot(_, _)
RetainNot(seq, content_key) ==
  IF seq = <<>> THEN <<>>
  ELSE IF IsStr(Head(seq)) /\ Head(seq).s = content_key THEN RetainNot(Tail(seq), content_key)
  ELSE <<Head(seq)>> \o RetainNot(Tail(seq), content_key)

\* for field in content_required { if !required_array.contains(&field) { push } }
RECURSIVE PushMissing(_, _)
PushMissing(required_array, content_required) ==
  IF content_required = <<>> THEN required_array
  ELSE IF Head(content_required) \in Range(required_array)
    THEN PushMissing(required_array, Tail(content_required))
    ELSE PushMissing(Append(required_array, Head(content_required)), Tail(content_required))

\* transform_adjacently_tagged_to_internally_tagged
transform_adjacently_tagged_to_internally_tagged(variant, content_key) ==
  LET properties == variant.o["properties"].o
      has_content == content_key \in DOMAIN properties /\ IsObj(properties[content_key])
      content_obj == properties[content_key]
      content_props_to_add ==
        IF has_content /\ Has(content_obj, "properties") /\ IsObj(content_obj.o["properties"])
          THEN content_obj.o["properties"].o ELSE EmptyMap
      content_required ==
        IF has_content /\ Has(content_obj, "required") /\ IsArr(content_obj.o["required"])
          THEN content_obj.o["required"].a ELSE <<>>
      \* add the flattened properties, then remove the content field itself
      flattened == [key \in DOMAIN properties \cup DOMAIN content_props_to_add |->
                      IF key \in DOMAIN content_props_to_add
                        THEN content_props_to_add[key] ELSE properties[key]]
      new_properties == MapDel(flattened, content_key)
      obj1 == Put(variant, "properties", JObj(new_properties))
      obj2 == IF Has(obj1, "required") /\ IsArr(obj1.o["required"])
                THEN Put(obj1, "required",
                         JArr(PushMissing(RetainNot(obj1.o["required"].a, content_key),
                                          content_required)))
                ELSE obj1
  IN IF Has(obj2, "description") /\ IsStr(obj2.o["description"])
       THEN Put(obj2, "description",
                JStr(obj2.o["description"].s \o " (flattened for Gemini compatibility)"))
       ELSE obj2

\* The unit-variant test of the oneOf branch: one property, one required entry
IsUnitVariantSchema(item) ==
  /\ Has(item, "properties") /\ IsObj(item.o["properties"])
  /\ Cardinality(DOMAIN item.o["properties"].o) = 1
  /\ Has(item, "required") /\ IsArr(item.o["required"])
  /\ Len(item.o["required"].a) = 1

\* The scan of the oneOf members: all_adjacently_tagged && adjacently_tagged_info.is_some()
RECURSIVE ScanOneOf(_, _)
ScanOneOf(arr, info) ==
  IF arr = <<>> THEN info.some
  ELSE LET d == detect_adjacently_tagged_variant(Head(arr))
       IN IF d.some
            THEN IF info.some
                   THEN IF d.tag # info.tag \/ d.content # info.content
                          THEN FALSE
                          ELSE ScanOneOf(Tail(arr), info)
                   ELSE ScanOneOf(Tail(arr), d)
            ELSE IF IsUnitVariantSchema(Head(arr))
                   THEN ScanOneOf(Tail(arr), info)
                   ELSE FALSE

AllAdjacentlyTagged(arr) == ScanOneOf(arr, NoDetect)

\* The rewrite of the oneOf members once the scan succeeded
TransformOneOf(arr) ==
  [i \in 1..Len(arr) |->
     LET d == detect_adjacently_tagged_variant(arr[i])
     IN IF d.some THEN transform_adjacently_tagged_to_internally_tagged(arr[i], d.content)
        ELSE arr[i]]

\* obj.remove(key) for every key of a set
DelAll(j, keys) == JObj([z \in DOMAIN j.o \ keys |-> j.o[z]])

\* The keywords strip_gemini_unsupported_keywords_recursive removes from every node
UnsupportedKeywords == {"examples", "title", "$schema", "$id", "default", "$defs", "definitions", "$ref"}

\* The placeholder keys of the map workaround: those of a "Keys: [a, b]" clause
\* of the description when it lists any, else key1, key2, key3
MapKeys(existing_desc) ==
  LET start == StrFind(existing_desc, "Keys: [")
      rest == SubSeq(existing_desc, start, Len(existing_desc))
      end == StrFind(rest, "]")
      keys_str == SubSeq(existing_desc, start + 7, start + end - 2)
      split == SplitComma(keys_str)
      extracted_keys == NonEmptyOnly([i \in 1..Len(split) |-> Trim(split[i])])
  IN IF start # 0 /\ end # 0 /\ extracted_keys # <<>>
       THEN extracted_keys
       ELSE <<"key1", "key2", "key3">>

\* The description the map workaround writes
MapDescription(existing_desc, keys) ==
  IF StrContains(existing_desc, "Keys: [") THEN existing_desc
  ELSE IF existing_desc = ""
    THEN "Object with any string keys (" \o JoinComma(keys)
           \o " are examples - use actual meaningful key names)"
    ELSE existing_desc \o " (" \o JoinComma(keys)
           \o " are example keys - use actual meaningful key names)"

\* The map workaround: an object with additionalProperties and no properties
MapWorkaround(obj) ==
  IF StrAt(obj, "type", "object") /\ ~Has(obj, "properties") /\ Has(obj, "additionalProperties")
    THEN LET value_schema == obj.o["additionalProperties"]
             existing_desc == IF Has(obj, "description") /\ IsStr(obj.o["description"])
                                THEN obj.o["description"].s ELSE ""
             keys == MapKeys(existing_desc)
             placeholder_props == [key \in Range(keys) |-> value_schema]
         IN Put(Put(Del(obj, "additionalProperties"), "properties", JObj(placeholder_props)),
                "description", JStr(MapDescription(existing_desc, keys)))
    ELSE obj

\* strip_gemini_unsupported_keywords_recursive
RECURSIVE strip_gemini_unsupported_keywords_recursive(_)
StripEach(seq) == [i \in 1..Len(seq) |-> strip_gemini_unsupported_keywords_recursive(seq[i])]

\* the prefixItems branch: the single item schema that replaces the tuple
TupleItems(processed_items) ==
  IF Len(processed_items) = 1 THEN processed_items[1]
  ELSE JObj([anyOf |-> JArr(processed_items)])

\* the prefixItems branch: the description that states the tuple's length
TupleDescription(obj, len) ==
  JStr((IF Has(obj, "description") /\ IsStr(obj.o["description"])
          THEN obj.o["description"].s \o ". " ELSE "")
       \o "Fixed-length array (tuple) with " \o ToString(len) \o " elements")

\* the prefixItems branch is taken with an array: the tuple becomes a plain array
IsTuple(obj) == Has(obj, "prefixItems") /\ IsArr(obj.o["prefixItems"])

\* removal of a boolean additionalProperties
StripBoolAdditional(obj) ==
  IF Has(obj, "additionalProperties") /\ IsBool(obj.o["additionalProperties"])
    THEN Del(obj, "additionalProperties") ELSE obj

\* The keys of a node once every step has run: prefixItems is taken out (and
\* minItems / maxItems with it when it was an array), items and description
\* are written by the prefixItems branch
StrippedKeys(obj) ==
  IF IsTuple(obj)
    THEN (DOMAIN obj.o \ {"prefixItems", "minItems", "maxItems"}) \cup {"items", "description"}
    ELSE DOMAIN obj.o \ {"prefixItems"}

\* the oneOf branch: tag-scheme downgrade before the recursion into the members
DowngradeOneOf(arr) == IF AllAdjacentlyTagged(arr) THEN TransformOneOf(arr) ELSE arr

\* What the recursive steps leave under one key of a node: properties, items,
\* prefixItems, allOf, anyOf, oneOf, additionalProperties
StripUnder(obj, key) ==
  IF IsTuple(obj) /\ key = "items"
    THEN TupleItems(Dedup(StripEach(obj.o["prefixItems"].a)))
  ELSE IF IsTuple(obj) /\ key = "description"
    THEN TupleDescription(obj, Len(obj.o["prefixItems"].a))
  ELSE IF key = "properties" /\ IsObj(obj.o[key])
    THEN JObj([name \in DOMAIN obj.o[key].o |->
                 strip_gemini_unsupported_keywords_recursive(obj.o[key].o[name])])
  ELSE IF key = "items" THEN strip_gemini_unsupported_keywords_recursive(obj.o[key])
  ELSE IF key \in {"allOf", "anyOf"} /\ IsArr(obj.o[key]) THEN JArr(StripEach(obj.o[key].a))
  ELSE IF key = "oneOf" /\ IsArr(obj.o[key])
    THEN JArr(StripEach(DowngradeOneOf(obj.o[key].a)))
  ELSE IF key = "additionalProperties" /\ IsObj(obj.o[key])
    THEN strip_gemini_unsupported_keywords_recursive(obj.o[key])
  ELSE obj.o[key]

\* the recursive steps, on a node the steps before them have been applied to
StripNested(obj) == JObj([key \in StrippedKeys(obj) |-> StripUnder(obj, key)])

\* The steps in the order of the source: keyword removal, boolean
\* additionalProperties, map workaround, then properties, items, prefixItems,
\* allOf, anyOf, oneOf, additionalProperties
strip_gemini_unsupported_keywords_recursive(schema) ==
  IF ~IsObj(schema) THEN schema
  ELSE StripNested(MapWorkaround(StripBoolAdditional(DelAll(schema, UnsupportedKeywords))))

\* ref_str.strip_prefix("#/$defs/").or_else(|| ref_str.strip_prefix("#/definitions/")):
\* the definition name, "" standing for None (no definition is named "")
RefName(ref_str) ==
  IF StartsAt(ref_str, "#/$defs/", 1) THEN SubSeq(ref_str, 9, Len(ref_str))
  ELSE IF StartsAt(ref_str, "#/definitions/", 1) THEN SubSeq(ref_str, 15, Len(ref_str))
  ELSE ""

\* The whole `if let` chain that finds the definition a node's $ref names
RefResolves(obj, defs) ==
  /\ Has(obj, "$ref") /\ IsStr(obj.o["$ref"])
  /\ RefName(obj.o["$ref"].s) # ""
  /\ IsObj(defs) /\ RefName(obj.o["$ref"].s) \in DOMAIN defs.o

RefTarget(obj, defs) == defs.o[RefName(obj.o["$ref"].s)]

\* The depth limit resolve_refs_for_gemini passes to inline_refs_recursive
InlineDepth == 3

\* inline_refs_recursive
RECURSIVE inline_refs_recursive(_, _, _)
InlineEach(seq, defs, depth) == [i \in 1..Len(seq) |-> inline_refs_recursive(seq[i], defs, depth)]

InlineUnder(key, value, defs, depth) ==
  IF key = "properties" /\ IsObj(value)
    THEN JObj([name \in DOMAIN value.o |-> inline_refs_recursive(value.o[name], defs, depth)])
  ELSE IF key = "items" THEN inline_refs_recursive(value, defs, depth)
  ELSE IF key \in {"prefixItems", "oneOf", "anyOf", "allOf"} /\ IsArr(value)
    THEN JArr(InlineEach(value.a, defs, depth))
  ELSE IF key = "additionalProperties" /\ IsObj(value)
    THEN inline_refs_recursive(value, defs, depth)
  ELSE value

inline_refs_recursive(schema, defs, depth) ==
  IF depth = 0
    THEN IF Has(schema, "$ref")
           THEN Put(Put(Del(schema, "$ref"), "type", JStr("object")),
                    "description", JStr("Recursive reference (depth limit reached)"))
           ELSE schema
  ELSE IF ~IsObj(schema) THEN schema
  ELSE IF RefResolves(schema, defs)
    THEN inline_refs_recursive(RefTarget(schema, defs), defs, depth - 1)
  ELSE JObj([key \in DOMAIN schema.o \ {"$ref"} |-> InlineUnder(key, schema.o[key], defs, depth)])

\* resolve_refs_for_gemini
resolve_refs_for_gemini(schema) ==
  IF ~IsObj(schema) THEN schema
  ELSE IF Has(schema, "$defs") \/ Has(schema, "definitions")
    THEN LET defs == IF Has(schema, "$defs") THEN schema.o["$defs"] ELSE schema.o["definitions"]
             s1 == IF Has(schema, "$defs") THEN Del(schema, "$defs") ELSE Del(schema, "definitions")
         IN IF RefResolves(s1, defs)
              THEN inline_refs_recursive(RefTarget(s1, defs), defs, InlineDepth)
              ELSE Del(s1, "$ref")
    ELSE schema

\* strip_gemini_unsupported_keywords
strip_gemini_unsupported_keywords(schema) ==
  strip_gemini_unsupported_keywords_recursive(resolve_refs_for_gemini(schema))

\* prepare_gemini_schema
prepare_gemini_schema(schema) == strip_gemini_unsupported_keywords(schema)

(***************************************************************************)
(* The reversal descriptor and the response reshaper.                      *)
(***************************************************************************)
\* Option<AdjacentlyTaggedEnumInfo>
NoInfo == [some |-> FALSE, tag_key |-> "", content_key |-> "", tag_values |-> <<>>]

\* The tag values of the members detect_adjacently_tagged_variant accepts
RECURSIVE DetectedTagValues(_)
DetectedTagValues(one_of) ==
  IF one_of = <<>> THEN <<>>
  ELSE LET d == detect_adjacently_tagged_variant(Head(one_of))
       IN (IF d.some THEN <<d.value>> ELSE <<>>) \o DetectedTagValues(Tail(one_of))

\* The first member detect_adjacently_tagged_variant accepts
RECURSIVE FirstDetected(_)
FirstDetected(one_of) ==
  IF one_of = <<>> THEN NoDetect
  ELSE LET d == detect_adjacently_tagged_variant(Head(one_of))
       IN IF d.some THEN d ELSE FirstDetected(Tail(one_of))

\* extract_adjacently_tagged_info
RECURSIVE extract_adjacently_tagged_info(_)
\* the first Some among the results for a sequence of schemas
RECURSIVE FirstInfo(_)
FirstInfo(seq) ==
  IF seq = <<>> THEN NoInfo
  ELSE LET info == extract_adjacently_tagged_info(Head(seq))
       IN IF info.some THEN info ELSE FirstInfo(Tail(seq))

\* The values of a map in the iteration order of its keys
RECURSIVE ValuesInOrder(_)
ValuesInOrder(map) ==
  IF DOMAIN map = {} THEN <<>>
  ELSE LET last == LastKey(DOMAIN map)
       IN Append(ValuesInOrder(MapDel(map, last)), map[last])

extract_adjacently_tagged_info(schema) ==
  LET first == IF Has(schema, "oneOf") /\ IsArr(schema.o["oneOf"])
                 THEN FirstDetected(schema.o["oneOf"].a) ELSE NoDetect
      in_props == IF Has(schema, "properties") /\ IsObj(schema.o["properties"])
                    THEN FirstInfo(ValuesInOrder(schema.o["properties"].o)) ELSE NoInfo
      in_items == IF Has(schema, "items") THEN extract_adjacently_tagged_info(schema.o["items"])
                  ELSE NoInfo
      in_all == IF Has(schema, "allOf") /\ IsArr(schema.o["allOf"])
                  THEN FirstInfo(schema.o["allOf"].a) ELSE NoInfo
      in_any == IF Has(schema, "anyOf") /\ IsArr(schema.o["anyOf"])
                  THEN FirstInfo(schema.o["anyOf"].a) ELSE NoInfo
  IN IF first.some
       THEN [some |-> TRUE, tag_key |-> first.tag, content_key |-> first.content,
             tag_values |-> DetectedTagValues(schema.o["oneOf"].a)]
     ELSE IF in_props.some THEN in_props
     ELSE IF in_items.some THEN in_items
     ELSE IF in_all.some THEN in_all
     ELSE in_any

\* A reshaper that wraps the siblings of every string tag, listed or not.
ReshapeEveryTagged(json, enum_info) ==
  IF /\ IsObj(json) /\ Has(json, enum_info.tag_key) /\ IsStr(json.o[enum_info.tag_key])
     /\ DOMAIN json.o # {enum_info.tag_key}
    THEN Put(DelAll(json, DOMAIN json.o \ {enum_info.tag_key}), enum_info.content_key,
             JObj([key \in DOMAIN json.o \ {enum_info.tag_key} |-> json.o[key]]))
  ELSE json

\* transform_internally_to_adjacently_tagged
RECURSIVE transform_internally_to_adjacently_tagged(_, _)
transform_internally_to_adjacently_tagged(json, enum_info) ==
  IF IsObj(json)
    THEN IF /\ Has(json, enum_info.tag_key)
            /\ IsStr(json.o[enum_info.tag_key])
            /\ json.o[enum_info.tag_key].s \in Range(enum_info.tag_values)
           THEN LET keys_to_move == DOMAIN json.o \ {enum_info.tag_key}
                    content_fields == [key \in keys_to_move |-> json.o[key]]
                IN IF keys_to_move # {}
                     THEN Put(DelAll(json, keys_to_move), enum_info.content_key, JObj(content_fields))
                     ELSE json
           ELSE JObj([key \in DOMAIN json.o |->
                        transform_internally_to_adjacently_tagged(json.o[key], enum_info)])
  ELSE IF IsArr(json)
    THEN JArr([i \in 1..Len(json.a) |->
                 transform_internally_to_adjacently_tagged(json.a[i], enum_info)])
  ELSE json

(***************************************************************************)
(* State.                                                                  *)
(*                                                                         *)
(* Retry coordinator (one generate_with_retry_with_history call):          *)
(*   pc            where the call is: "idle", "await" (inside              *)
(*                 generate_fn(..).await), "sleep" (inside                 *)
(*                 sleep(..).await), "done" (returned), "panic_overflow",  *)
(*                 "panic_unreachable"                                     *)
(*   client        how the call was configured                             *)
(*   max_retries   the max_retries argument, an Option<usize>              *)
(*   max_attempts  the local max_attempts                                  *)
(*   attempt       the loop variable                                       *)
(*   messages      the local conversation history                          *)
(*   sent          the message list handed to the latest generate_fn call  *)
(*   prev_sent     the message list handed to the call before that         *)
(*   calls         number of generate_fn calls made so far                 *)
(*   sleeps        number of sleeps started so far                         *)
(*   ctx_failures  number of generate_fn calls so far that returned a      *)
(*                 ValidationError together with a raw-response context    *)
(*   outcome       what the latest generate_fn call returned               *)
(*   result        what the coordinator returned                           *)
(*                                                                         *)
(* Enum adaptation pipeline (GeminiClient::materialize_internal's schema   *)
(* and response handling for one enum type):                               *)
(*   stage, enum_desc, schema, gemini_schema, enum_info, variant_ix,       *)
(*   expected, response, reshaped                                          *)
(***************************************************************************)
VARIABLES pc, client, max_retries, max_attempts, attempt, messages, sent, prev_sent,
          calls, sleeps, ctx_failures, outcome, result,
          stage, enum_desc, schema, gemini_schema, enum_info, variant_ix, expected,
          response, reshaped,
          struct_pc, struct_desc, struct_schema,
          strict_pc, strict_in, strict_out,
          reshape_pc, reshape_json, reshape_info, reshape_out,
          api_pc, api_request, api_result,
          inv_state, inv_messages, inv_outcomes,
          gem_pc, gem_schema, gem_info, gem_out,
          mat_pc, mat_call, mat_messages, mat_calls, mat_result

coord_vars == <<pc, client, max_retries, max_attempts, attempt, messages, sent, prev_sent,
                calls, sleeps, ctx_failures, outcome, result>>

enum_vars == <<stage, enum_desc, schema, gemini_schema, enum_info, variant_ix, expected,
               response, reshaped>>

\* One run of a derived struct's schema(): struct_pc is "idle", "start",
\* "returned" or "stack_overflow", struct_desc the struct the derive was
\* applied to, struct_schema what schema() returned.
struct_vars == <<struct_pc, struct_desc, struct_schema>>

\* One call of prepare_strict_schema: strict_pc is "idle", "start" or
\* "returned", strict_in the schema passed, strict_out the value returned.
strict_vars == <<strict_pc, strict_in, strict_out>>

\* One call of transform_internally_to_adjacently_tagged: reshape_pc is
\* "idle", "start" or "returned", reshape_json the value passed,
\* reshape_info the enum_info passed, reshape_out the value afterwards.
reshape_vars == <<reshape_pc, reshape_json, reshape_info, reshape_out>>

\* One non-2xx or 2xx HTTP response classified: api_pc is "idle", "start" or
\* "returned", api_request the response received, api_result what
\* classify_api_error or check_response_status returned.
api_vars == <<api_pc, api_request, api_result>>

\* Coordinator invocations running interleaved: inv_state[i] is the
\* position and the locals of invocation i other than its history,
\* inv_messages[i] its local `messages` vector, inv_outcomes[n] the results
\* generate_fn may return in attempt n (the same throughout a run).
inv_vars == <<inv_state, inv_messages, inv_outcomes>>

\* One schema prepared for the constrained dialect: gem_pc is "idle",
\* "start" or "returned", gem_schema the schema of the target type, gem_info
\* the reversal descriptor extracted from it, gem_out the prepared schema.
gem_vars == <<gem_pc, gem_schema, gem_info, gem_out>>

\* One call of an entry point of GeminiClient: mat_pc is "idle", "start",
\* "await" (inside materialize_internal), "sleep" or "returned", mat_call the
\* entry point, the client's max_retries and the coordinator's locals,
\* mat_messages the coordinator's history, mat_calls the message list of
\* every materialize_internal call so far, mat_result the value returned.
mat_vars == <<mat_pc, mat_call, mat_messages, mat_calls, mat_result>>

\* The state of the library functions explored on their own.
lib_vars == <<struct_vars, strict_vars, reshape_vars, api_vars, inv_vars, gem_vars, mat_vars>>

vars == <<coord_vars, enum_vars, lib_vars>>

StructIdle == struct_pc = "idle" /\ struct_desc = <<>> /\ struct_schema = JNull

StrictIdle == strict_pc = "idle" /\ strict_in = JNull /\ strict_out = JNull

ReshapeIdle ==
  reshape_pc = "idle" /\ reshape_json = JNull /\ reshape_info = NoInfo /\ reshape_out = JNull

ApiIdle == api_pc = "idle" /\ api_request = <<>> /\ api_result = <<>>

GemIdle == gem_pc = "idle" /\ gem_schema = JNull /\ gem_info = NoInfo /\ gem_out = JNull

InvIdle == inv_state = <<>> /\ inv_messages = <<>> /\ inv_outcomes = <<>>

MatIdle ==
  /\ mat_pc = "idle" /\ mat_call = <<>> /\ mat_messages = <<>> /\ mat_calls = <<>>
  /\ mat_result = <<>>

\* Every library function but the named one is idle.
LibIdleBut(group) ==
  /\ IF group = "struct" THEN TRUE ELSE StructIdle
  /\ IF group = "strict" THEN TRUE ELSE StrictIdle
  /\ IF group = "reshape" THEN TRUE ELSE ReshapeIdle
  /\ IF group = "api" THEN TRUE ELSE ApiIdle
  /\ IF group = "invocations" THEN TRUE ELSE InvIdle
  /\ IF group = "gemini" THEN TRUE ELSE GemIdle
  /\ IF group = "materialize" THEN TRUE ELSE MatIdle

LibIdle == LibIdleBut("")

\* The variables outside each group.
outside_struct ==
  <<coord_vars, enum_vars, strict_vars, reshape_vars, api_vars, inv_vars, gem_vars, mat_vars>>

outside_strict ==
  <<coord_vars, enum_vars, struct_vars, reshape_vars, api_vars, inv_vars, gem_vars, mat_vars>>

outside_reshape ==
  <<coord_vars, enum_vars, struct_vars, strict_vars, api_vars, inv_vars, gem_vars, mat_vars>>

outside_api ==
  <<coord_vars, enum_vars, struct_vars, strict_vars, reshape_vars, inv_vars, gem_vars, mat_vars>>

outside_inv ==
  <<coord_vars, enum_vars, struct_vars, strict_vars, reshape_vars, api_vars, gem_vars, mat_vars>>

outside_mat ==
  <<coord_vars, enum_vars, struct_vars, strict_vars, reshape_vars, api_vars, inv_vars, gem_vars>>

outside_gem ==
  <<coord_vars, enum_vars, struct_vars, strict_vars, reshape_vars, api_vars, inv_vars, mat_vars>>

(***************************************************************************)
(* The enum types explored: every sequence of 1..MaxVariants distinct      *)
(* variants drawn from one variant of each kind, tagged "status" with      *)
(* content "data".                                                         *)
(***************************************************************************)
StringTy == FieldType("String", FALSE)

IntTy == FieldType("u32", FALSE)

OptStringTy == FieldType("String", TRUE)

VariantShapes ==
  { Variant("Pending", "unit", <<>>),
    Variant("Code", "tuple", <<Field("", IntTy)>>),
    Variant("Maybe", "tuple", <<Field("", OptStringTy)>>),
    Variant("Pair", "tuple", <<Field("", StringTy), Field("", IntTy)>>),
    Variant("Success", "named", <<Field("output", StringTy), Field("tokens_used", IntTy)>>),
    Variant("Failure", "named", <<Field("note", OptStringTy)>>) }

EnumDescs ==
  { [name |-> "TaskResult", tag |-> "status", content |-> "data", variants |-> vs] :
      vs \in { q \in UNION {[1..n -> VariantShapes] : n \in 1..MaxVariants} :
                 \A i, j \in 1..Len(q) : i # j => q[i] # q[j] } }

(***************************************************************************)
(* A JSON instance that conforms to a schema: the constant of an enum, an  *)
(* object with every property (full) or only the required ones, an array   *)
(* with one element per positional item schema, a sample scalar.           *)
(***************************************************************************)
RECURSIVE Instance(_, _)
Instance(s, full) ==
  IF Has(s, "enum") /\ IsArr(s.o["enum"]) /\ s.o["enum"].a # <<>>
    THEN s.o["enum"].a[1]
  ELSE IF Has(s, "properties") /\ IsObj(s.o["properties"])
    THEN LET props == s.o["properties"].o
             req == IF Has(s, "required") /\ IsArr(s.o["required"])
                      THEN {x.s : x \in Range(s.o["required"].a)} ELSE {}
             keys == IF full THEN DOMAIN props ELSE DOMAIN props \cap req
         IN JObj([key \in keys |-> Instance(props[key], full)])
  ELSE IF StrAt(s, "type", "array")
    THEN IF Has(s, "items") /\ IsArr(s.o["items"])
           THEN JArr([i \in 1..Len(s.o["items"].a) |-> Instance(s.o["items"].a[i], full)])
         ELSE IF Has(s, "items") THEN JArr(<<Instance(s.o["items"], full)>>)
         ELSE JArr(<<>>)
  ELSE IF StrAt(s, "type", "string") THEN JStr("text")
  ELSE IF StrAt(s, "type", "integer") THEN JNum(7)
  ELSE JNull

\* The schema of variant i within an enum schema (a oneOf member, or the
\* string constant of an all-unit enum)
MemberSchema(s, i) ==
  IF Has(s, "oneOf") THEN s.o["oneOf"].a[i]
  ELSE JObj([type |-> JStr("string"), enum |-> JArr(<<s.o["enum"].a[i]>>)])

(***************************************************************************)
(* The enum adaptation pipeline, one action per step of                    *)
(* materialize_internal that touches the schema or the response.           *)
(***************************************************************************)
\* T::schema()
Synthesize ==
  /\ stage = "declared"
  /\ schema' = generate_enum_schema(enum_desc)
  /\ stage' = "synthesized"
  /\ UNCHANGED <<enum_desc, gemini_schema, enum_info, variant_ix, expected, response, reshaped>>
  /\ UNCHANGED <<coord_vars, lib_vars>>

\* extract_adjacently_tagged_info(&schema) then prepare_gemini_schema(&schema)
Adapt ==
  /\ stage = "synthesized"
  /\ enum_info' = extract_adjacently_tagged_info(schema)
  /\ gemini_schema' = prepare_gemini_schema(schema)
  /\ stage' = "adapted"
  /\ UNCHANGED <<enum_desc, schema, variant_ix, expected, response, reshaped>>
  /\ UNCHANGED <<coord_vars, lib_vars>>

\* The backend answers with an instance of one variant that conforms to the
\* schema it was sent; expected is the same value in the type's own
\* (adjacently tagged) representation.
Respond ==
  /\ stage = "adapted"
  /\ \E i \in 1..Len(enum_desc.variants), full \in BOOLEAN :
       /\ variant_ix' = i
       /\ response' = Instance(MemberSchema(gemini_schema, i), full)
       /\ expected' = Instance(MemberSchema(schema, i), full)
  /\ stage' = "responded"
  /\ UNCHANGED <<enum_desc, schema, gemini_schema, enum_info, reshaped>>
  /\ UNCHANGED <<coord_vars, lib_vars>>

\* if let Some(enum_info) = adjacently_tagged_info { transform_internally_to_adjacently_tagged }
Reshape ==
  /\ stage = "responded"
  /\ reshaped' = IF enum_info.some
                   THEN transform_internally_to_adjacently_tagged(response, enum_info)
                   ELSE response
  /\ stage' = "reshaped"
  /\ UNCHANGED <<enum_desc, schema, gemini_schema, enum_info, variant_ix, expected, response>>
  /\ UNCHANGED <<coord_vars, lib_vars>>

(***************************************************************************)
(* Texts (Rust Strings).  A text that is JSON is its value together with   *)
(* its formatting: pretty says it carries insignificant whitespace, which  *)
(* parsing drops and serde_json::to_string never writes.                   *)
(***************************************************************************)
NoText == [t |-> "none"]

GarbageText == [t |-> "garbage"]

PromptText == [t |-> "prompt"]

JsonText(json, pretty) == [t |-> "json", json |-> json, pretty |-> pretty]

\* serde_json::from_str::<Value>(text).is_ok()
IsJsonText(text) == text.t = "json"

\* serde_json::to_string(&value): the compact rendering
to_string(json) == JsonText(json, FALSE)

\* format!("Failed to parse response as JSON: {}\nPartial JSON: {}", e, raw_response)
ParseErrorText(raw_response) == [t |-> "parse_error", raw |-> raw_response]

\* The error_feedback text built around ctx.error_message
FeedbackText(error_message) == [t |-> "feedback", details |-> error_message]

(***************************************************************************)
(* Chat messages (src/backend/messages.rs).                                *)
(***************************************************************************)
\* ChatMessage::new
ChatMessage(role, content) == [role |-> role, content |-> content, media |-> <<>>]

\* ChatMessage::user
User(content) == ChatMessage("user", content)

\* ChatMessage::assistant
Assistant(content) == ChatMessage("assistant", content)

(***************************************************************************)
(* Errors.  serial is the number of the generate_fn call that produced the *)
(* error value: two errors of different calls are different values.        *)
(***************************************************************************)
RStructorError(kind, api, msg, serial) == [kind |-> kind, api |-> api, msg |-> msg, serial |-> serial]

NoError == RStructorError("", "", NoText, 0)

\* e.to_string()
Display(e) == [t |-> "display", kind |-> e.kind, api |-> e.api, msg |-> e.msg]

\* RStructorError::is_retryable
RetryableApiKinds == {"RateLimited", "ServerError", "ServiceUnavailable", "GatewayError"}

is_retryable(e) == e.kind = "Timeout" \/ (e.kind = "ApiError" /\ e.api \in RetryableApiKinds)

IsValidationError(e) == e.kind = "ValidationError"

\* Option<ValidationFailureContext>
NoContext == [some |-> FALSE, error_message |-> NoText, raw_response |-> NoText]

\* Some(ValidationFailureContext::new(error_message, raw_response))
SomeContext(error_message, raw_response) ==
  [some |-> TRUE, error_message |-> error_message, raw_response |-> raw_response]

(***************************************************************************)
(* What one generate_fn call returns.  backend is the text the backend     *)
(* sent for the call (NoText when it sent none), origin says which step    *)
(* produced the result.                                                    *)
(***************************************************************************)
NoOutcome == [tag |-> "none", err |-> NoError, ctx |-> NoContext, raw |-> NoText,
              backend |-> NoText, origin |-> ""]

OkOutcome(raw_response, backend) ==
  [tag |-> "ok", err |-> NoError, ctx |-> NoContext, raw |-> raw_response,
   backend |-> backend, origin |-> "validated"]

ErrOutcome(e, ctx, backend, origin) ==
  [tag |-> "err", err |-> e, ctx |-> ctx, raw |-> NoText, backend |-> backend, origin |-> origin]

(***************************************************************************)
(* GeminiClient::materialize_internal: the response handling after the     *)
(* request, for a target type that is one of the modelled enums.           *)
(***************************************************************************)
\* serde_json::from_str::<T>(text) succeeds: the text is JSON and its value is
\* an instance of the type's own (adjacently tagged) schema
Deserializes(target, text) ==
  /\ IsJsonText(text)
  /\ \E i \in 1..Len(target.variants), full \in BOOLEAN :
       text.json = Instance(MemberSchema(generate_enum_schema(target), i), full)

\* A result of the type's validate hook: NoError is Ok(()), any other value e is Err(e)
HookOk == NoError

\* parse_and_validate_response (through parse_validate_and_create_output)
parse_and_validate_response(raw_response, target, hook, backend, serial) ==
  IF ~Deserializes(target, raw_response)
    THEN LET error_msg == ParseErrorText(raw_response)
         IN ErrOutcome(RStructorError("ValidationError", "", error_msg, serial),
                       SomeContext(error_msg, raw_response), backend, "parse")
  ELSE IF hook # HookOk
    THEN ErrOutcome(hook, SomeContext(Display(hook), raw_response), backend, "hook")
  ELSE OkOutcome(raw_response, backend)

\* The text part handling of materialize_internal: reshape when a reversal
\* descriptor was extracted and the text parses, then parse and validate
ReshapedResponse(text, info) ==
  IF info.some /\ IsJsonText(text)
    THEN to_string(transform_internally_to_adjacently_tagged(text.json, info))
    ELSE text

materialize_internal_text(text, target, hook, serial) ==
  parse_and_validate_response(
    ReshapedResponse(text, extract_adjacently_tagged_info(generate_enum_schema(target))),
    target, hook, text, serial)

\* The failures of materialize_internal before any text is handled:
\* handle_http_error, check_response_status, response.json(), empty candidates
TransportErrors(serial) ==
  { RStructorError("Timeout", "", NoText, serial),
    RStructorError("HttpError", "", NoText, serial) }
  \cup { RStructorError("ApiError", api, NoText, serial) :
           api \in RetryableApiKinds \cup {"AuthenticationFailed", "UnexpectedResponse"} }

\* The errors a validate hook may return: its type is Result<(), RStructorError>
HookErrors(serial) ==
  { RStructorError("ValidationError", "", [t |-> "hook"], serial),
    RStructorError("Timeout", "", NoText, serial),
    RStructorError("ApiError", "UnexpectedResponse", NoText, serial) }

\* The texts a backend may answer with for a target type: a conforming
\* instance of each variant of the schema it was sent, one of them also with
\* insignificant whitespace, and a text that is no JSON
BackendTexts(target) ==
  LET gs == prepare_gemini_schema(generate_enum_schema(target))
  IN { JsonText(Instance(MemberSchema(gs, i), TRUE), FALSE) : i \in 1..Len(target.variants) }
     \cup { JsonText(Instance(MemberSchema(gs, Len(target.variants)), TRUE), TRUE), GarbageText }

\* Everything one materialize_internal call may return, as call number serial
MaterializeOutcomes(target, serial) ==
  { ErrOutcome(e, NoContext, NoText, "transport") : e \in TransportErrors(serial) }
  \cup { materialize_internal_text(text, target, hook, serial) :
           text \in BackendTexts(target), hook \in {HookOk} \cup HookErrors(serial) }

\* What a closure other than materialize_internal may also return: a
\* validation error without raw-response context
ClosureOutcomes(target, serial) ==
  MaterializeOutcomes(target, serial)
  \cup { ErrOutcome(RStructorError("ValidationError", "", [t |-> "closure"], serial),
                    NoContext, NoText, "closure") }

(***************************************************************************)
(* generate_with_retry_with_history (src/backend/utils.rs).                *)
(***************************************************************************)
\* Option<usize>
NoneRetries == [some |-> FALSE, n |-> 0]

SomeRetries(n) == [some |-> TRUE, n |-> n]

\* max_retries: Some(3) of GeminiClient::new and GeminiClient::from_env
DefaultMaxRetries == 3

\* max_retries.filter(|&n| n > 0) is Some
Retrying(mr) == mr.some /\ mr.n > 0

\* max_retries + 1 in usize arithmetic without overflow checks
MaxAttempts(n) == (n + 1) % (2^UsizeBits)

\* attempt >= max_attempts - 1
IsLastAttempt(att, max) == att >= max - 1

\* A history that gets the feedback message even when there is no
\* raw-response context to replay first
HistoryWithFeedbackAlways(history, ctx) ==
  IF ctx.some
    THEN history \o <<Assistant(ctx.raw_response), User(FeedbackText(ctx.error_message))>>
    ELSE history \o <<User(FeedbackText(ctx.error_message))>>

\* A history that gets the feedback message without the failed response
HistoryWithoutAssistant(history, ctx) ==
  IF ctx.some THEN history \o <<User(FeedbackText(ctx.error_message))>> ELSE history

\* A history that starts over from the failed exchange
HistoryRestartedAtFailure(history, ctx) ==
  IF ctx.some
    THEN <<User(FeedbackText(ctx.error_message))>>
    ELSE history

\* The history after a validation failure that is retried
HistoryAfterValidationFailure(history, ctx) ==
  IF ctx.some
    THEN history \o <<Assistant(ctx.raw_response), User(FeedbackText(ctx.error_message))>>
    ELSE history

\* A loop body without the arm for retryable API errors
DecisionWithoutApiRetry(out, is_last_attempt) ==
  IF out.tag = "ok" THEN "return_ok"
  ELSE IF IsValidationError(out.err) /\ ~is_last_attempt THEN "retry_validation"
  ELSE "return_err"

\* The arm of the match on generate_fn's result the loop body takes
Decision(out, is_last_attempt) ==
  IF out.tag = "ok" THEN "return_ok"
  ELSE IF IsValidationError(out.err)
    THEN IF ~is_last_attempt THEN "retry_validation" ELSE "return_err"
  ELSE IF is_retryable(out.err) /\ ~is_last_attempt THEN "retry_api"
  ELSE "return_err"

\* The value the coordinator returns for a generate_fn result
OkResult(out) == [tag |-> "ok", err |-> NoError, raw |-> out.raw]

\* An error result that wraps the error in a new one
WrappedErrResult(e) ==
  [tag |-> "err", err |-> RStructorError("ApiError", "UnexpectedResponse", Display(e), e.serial),
   raw |-> NoText]

ErrResult(e) == [tag |-> "err", err |-> e, raw |-> NoText]

NoResult == [tag |-> "none", err |-> NoError, raw |-> NoText]

\* A map_err that turns every error into a validation error
MapErrAsValidation(out) ==
  IF out.tag = "ok" THEN [tag |-> "ok", err |-> NoError, raw |-> out.raw]
  ELSE [tag |-> "err", raw |-> NoText,
        err |-> RStructorError("ValidationError", "", Display(out.err), out.err.serial)]

\* generate_fn(..).await.map_err(|(err, _)| err)
MapErr(out) == IF out.tag = "ok" THEN OkResult(out) ELSE ErrResult(out.err)

\* The configurations a call is made with.  built says how max_retries was
\* set: by GeminiClient::new alone, by new and the builder methods
\* max_retries(n) / no_retries(), or by a direct call of the coordinator with
\* some other closure.
TargetTypes ==
  { [name |-> "TaskResult", tag |-> "status", content |-> "data",
     variants |-> <<Variant("Success", "named", <<Field("output", StringTy)>>),
                    Variant("Pending", "unit", <<>>)>>],
    [name |-> "Reply", tag |-> "status", content |-> "data",
     variants |-> <<Variant("Code", "tuple", <<Field("", IntTy)>>)>>] }

RetryCounts == 0..MaxRetriesExplored \cup {USIZE_MAX}

Configurations ==
  { <<[built |-> "new", target |-> t], SomeRetries(DefaultMaxRetries)>> : t \in TargetTypes }
  \cup { <<[built |-> "builder", target |-> t], SomeRetries(n)>> : t \in TargetTypes, n \in RetryCounts }
  \cup { <<[built |-> "direct", target |-> t], mr>> :
           t \in TargetTypes, mr \in {NoneRetries} \cup {SomeRetries(n) : n \in RetryCounts} }

\* What generate_fn may return for the call number serial
Outcomes(cl, serial) ==
  IF cl.built = "direct" THEN ClosureOutcomes(cl.target, serial)
  ELSE MaterializeOutcomes(cl.target, serial)

NoClient == [built |-> "", target |-> CHOOSE t \in TargetTypes : TRUE]

\* The call of generate_fn(messages.clone()): the await begins
Invoke(history) ==
  /\ pc' = "await"
  /\ prev_sent' = sent
  /\ sent' = history
  /\ calls' = calls + 1

\* Entry: the function runs to its first await, or panics before it
Begin ==
  /\ pc = "idle"
  /\ \E cfg \in Configurations :
       /\ client' = cfg[1]
       /\ max_retries' = cfg[2]
       /\ messages' = <<User(PromptText)>>
       /\ attempt' = 0
       /\ IF ~Retrying(cfg[2])
            THEN \* no retries configured: one call with the single user message
                 /\ max_attempts' = max_attempts
                 /\ Invoke(<<User(PromptText)>>)
            ELSE \* max_retries + 1 panics on overflow when overflow checks
                 \* are on and wraps when they are off
                 \E overflow_checks \in (IF cfg[2].n + 1 >= 2^UsizeBits THEN BOOLEAN ELSE {FALSE}) :
                   IF overflow_checks
                     THEN /\ pc' = "panic_overflow"
                          /\ UNCHANGED <<max_attempts, sent, prev_sent, calls>>
                     ELSE /\ max_attempts' = MaxAttempts(cfg[2].n)
                          /\ IF 0 < MaxAttempts(cfg[2].n)
                               THEN Invoke(<<User(PromptText)>>)
                               ELSE \* the loop body never runs: unreachable!()
                                    /\ pc' = "panic_unreachable"
                                    /\ UNCHANGED <<sent, prev_sent, calls>>
  /\ UNCHANGED <<sleeps, ctx_failures, outcome, result>>
  /\ UNCHANGED <<enum_vars, lib_vars>>

\* The bookkeeping of a returned generate_fn result
Returned(out) ==
  /\ outcome' = out
  /\ ctx_failures' = IF out.tag = "err" /\ IsValidationError(out.err) /\ out.ctx.some
                       THEN ctx_failures + 1 ELSE ctx_failures

\* No retries configured: the single call returns and its result is returned
SingleAttemptReturns ==
  /\ pc = "await" /\ ~Retrying(max_retries)
  /\ \E out \in Outcomes(client, calls) :
       /\ Returned(out)
       /\ result' = MapErr(out)
  /\ pc' = "done"
  /\ UNCHANGED <<client, max_retries, max_attempts, attempt, messages, sent, prev_sent, calls, sleeps>>
  /\ UNCHANGED <<enum_vars, lib_vars>>

\* Ok(result) => return Ok(result)
AttemptSucceeds ==
  /\ pc = "await" /\ Retrying(max_retries)
  /\ \E out \in Outcomes(client, calls) :
       /\ Decision(out, IsLastAttempt(attempt, max_attempts)) = "return_ok"
       /\ Returned(out)
       /\ result' = OkResult(out)
  /\ pc' = "done"
  /\ UNCHANGED <<client, max_retries, max_attempts, attempt, messages, sent, prev_sent, calls, sleeps>>
  /\ UNCHANGED <<enum_vars, lib_vars>>

\* A validation error on an attempt that is not the last: grow the history
\* when there is a raw-response context, sleep 500 ms, continue
ValidationRetry ==
  /\ pc = "await" /\ Retrying(max_retries)
  /\ \E out \in Outcomes(client, calls) :
       /\ Decision(out, IsLastAttempt(attempt, max_attempts)) = "retry_validation"
       /\ Returned(out)
       /\ messages' = HistoryAfterValidationFailure(messages, out.ctx)
  /\ pc' = "sleep"
  /\ sleeps' = sleeps + 1
  /\ UNCHANGED <<client, max_retries, max_attempts, attempt, sent, prev_sent, calls, result>>
  /\ UNCHANGED <<enum_vars, lib_vars>>

\* A retryable API error on an attempt that is not the last: sleep, continue
ApiRetry ==
  /\ pc = "await" /\ Retrying(max_retries)
  /\ \E out \in Outcomes(client, calls) :
       /\ Decision(out, IsLastAttempt(attempt, max_attempts)) = "retry_api"
       /\ Returned(out)
  /\ pc' = "sleep"
  /\ sleeps' = sleeps + 1
  /\ UNCHANGED <<client, max_retries, max_attempts, attempt, messages, sent, prev_sent, calls, result>>
  /\ UNCHANGED <<enum_vars, lib_vars>>

\* Any other error, or any error on the last attempt: return Err(err)
AttemptFails ==
  /\ pc = "await" /\ Retrying(max_retries)
  /\ \E out \in Outcomes(client, calls) :
       /\ Decision(out, IsLastAttempt(attempt, max_attempts)) = "return_err"
       /\ Returned(out)
       /\ result' = ErrResult(out.err)
  /\ pc' = "done"
  /\ UNCHANGED <<client, max_retries, max_attempts, attempt, messages, sent, prev_sent, calls, sleeps>>
  /\ UNCHANGED <<enum_vars, lib_vars>>

\* The sleep returns; `continue` takes the loop to its next iteration, which
\* calls generate_fn, or leaves the loop for unreachable!()
Wake ==
  /\ pc = "sleep"
  /\ attempt' = attempt + 1
  /\ IF attempt + 1 < max_attempts
       THEN Invoke(messages)
       ELSE /\ pc' = "panic_unreachable"
            /\ UNCHANGED <<sent, prev_sent, calls>>
  /\ UNCHANGED <<client, max_retries, max_attempts, messages, sleeps, ctx_failures, outcome, result>>
  /\ UNCHANGED <<enum_vars, lib_vars>>

(***************************************************************************)
(* Specifications.                                                         *)
(***************************************************************************)
CoordIdle ==
  /\ pc = "idle"
  /\ client = NoClient
  /\ max_retries = NoneRetries
  /\ max_attempts = 0
  /\ attempt = 0
  /\ messages = <<>>
  /\ sent = <<>>
  /\ prev_sent = <<>>
  /\ calls = 0
  /\ sleeps = 0
  /\ ctx_failures = 0
  /\ outcome = NoOutcome
  /\ result = NoResult

EnumBlank(desc) ==
  /\ stage = "declared"
  /\ enum_desc = desc
  /\ schema = JNull
  /\ gemini_schema = JNull
  /\ enum_info = NoInfo
  /\ variant_ix = 0
  /\ expected = JNull
  /\ response = JNull
  /\ reshaped = JNull

\* One coordinator call
EnumIdle == EnumBlank(CHOOSE d \in EnumDescs : TRUE)

Init == CoordIdle /\ EnumIdle /\ LibIdle

Next == Begin \/ SingleAttemptReturns \/ AttemptSucceeds \/ ValidationRetry \/ ApiRetry
          \/ AttemptFails \/ Wake

Spec == Init /\ [][Next]_vars

\* The enum adaptation pipeline, for every modelled enum type
InitEnum == CoordIdle /\ LibIdle /\ \E d \in EnumDescs : EnumBlank(d)

NextEnum == Synthesize \/ Adapt \/ Respond \/ Reshape

SpecEnum == InitEnum /\ [][NextEnum]_vars

(***************************************************************************)
(* Properties of the retry coordinator (specification Spec).               *)
(***************************************************************************)
Terminal == pc \in {"done", "panic_overflow", "panic_unreachable"}

\* The state right after the coordinator handled a generate_fn result
Handled == pc \in {"sleep", "done"}

\* The pair a validation failure with context ctx appends
FailurePair(ctx) == <<Assistant(ctx.raw_response), User(FeedbackText(ctx.error_message))>>

\* The error kinds listed as retryable
ListedRetryable(e) ==
  \/ e.kind = "Timeout"
  \/ e.kind = "ApiError"
     /\ e.api \in {"RateLimited", "ServerError", "ServiceUnavailable", "GatewayError"}

WellFormed(history) ==
  /\ history # <<>>
  /\ history[1].role = "user"
  /\ history[Len(history)].role = "user"
  /\ \A i \in 1..(Len(history) - 1) : history[i].role # history[i + 1].role

\* C1: the message list handed to each backend call starts with a user
\* message, ends with a user message and never has two consecutive messages
\* of the same role, for every max_retries and every sequence of outcomes.
C1_SentHistoryAlternates ==
  /\ calls >= 1 => WellFormed(sent)
  /\ calls >= 2 => WellFormed(prev_sent)

\* C1 witness: the fourth call of a run in which two failures grew the
\* history and the latest one, a validation error without raw-response
\* context, did not.
C1_Witness ==
  /\ pc = "await" /\ calls = 4 /\ Len(sent) = 5
  /\ outcome.tag = "err" /\ IsValidationError(outcome.err) /\ ~outcome.ctx.some

\* C2: with max_retries = Some(r), r > 0, the backend call is invoked at most
\* r + 1 times; exactly r + 1 times when every attempt fails with a validation
\* error or a retryable error; a client built with defaults makes at most 4.
C2_CallCount ==
  Retrying(max_retries) /\ pc # "idle" =>
    /\ calls <= max_retries.n + 1
    /\ client.built = "new" => calls <= 4
    /\ ( /\ Terminal
         /\ result.tag # "ok"
         /\ result.tag = "err" => (IsValidationError(result.err) \/ is_retryable(result.err)) )
       => calls = max_retries.n + 1

\* C2 for every r below usize::MAX, where max_retries + 1 does not overflow
C2_CallCountWithoutOverflow ==
  Retrying(max_retries) /\ pc # "idle" /\ max_retries.n < USIZE_MAX =>
    /\ calls <= max_retries.n + 1
    /\ client.built = "new" => calls <= 4
    /\ ( /\ Terminal
         /\ result.tag # "ok"
         /\ result.tag = "err" => (IsValidationError(result.err) \/ is_retryable(result.err)) )
       => calls = max_retries.n + 1

\* C3: each validation failure with raw-response context on an attempt that
\* is not the last appends exactly the pair (assistant: raw_response, user:
\* feedback); after k such failures in a row the next attempt receives 1 + 2k
\* messages; with max_retries = 2, three such failures end in failure with a
\* final history of 5 messages.
C3_HistoryGrowsByPairs ==
  /\ ( /\ pc = "await" /\ calls >= 2
       /\ IsValidationError(outcome.err) /\ outcome.ctx.some )
     => sent = prev_sent \o FailurePair(outcome.ctx)
  /\ (pc = "await" /\ Retrying(max_retries) /\ ctx_failures = calls - 1)
     => Len(sent) = 1 + 2 * (calls - 1)
  /\ (pc = "done" /\ max_retries = SomeRetries(2) /\ ctx_failures = 3)
     => result.tag = "err" /\ calls = 3 /\ Len(messages) = 5 /\ messages = sent

\* C3 witness: max_retries = 2 and three validation failures with context
C3_Witness ==
  /\ pc = "done" /\ max_retries = SomeRetries(2) /\ ctx_failures = 3
  /\ result.tag = "err" /\ Len(messages) = 5

\* C4: a retryable error (RateLimited, ServerError, ServiceUnavailable,
\* GatewayError, Timeout) on an attempt that is not the last is retried, leaves
\* the history unchanged, and the next attempt gets the same message list.
C4_RetryableKeepsHistory ==
  /\ ( /\ Handled /\ Retrying(max_retries)
       /\ outcome.tag = "err" /\ ListedRetryable(outcome.err)
       /\ attempt < max_attempts - 1 )
     => pc = "sleep" /\ messages = sent
  /\ ( /\ pc = "await" /\ calls >= 2
       /\ outcome.tag = "err" /\ ListedRetryable(outcome.err) )
     => sent = prev_sent

\* C4 witness: the call after a ServiceUnavailable on a grown history
C4_Witness ==
  /\ pc = "await" /\ calls = 3 /\ Len(sent) = 3
  /\ outcome.err.kind = "ApiError" /\ outcome.err.api = "ServiceUnavailable"

\* C5: a non-retryable, non-validation error on any attempt, and any error on
\* the last attempt, ends the coordinator at once; the value returned is the
\* error of that very call, unwrapped.
C5_TerminalErrorVerbatim ==
  ( /\ Handled
    /\ outcome.tag = "err"
    /\ \/ ~IsValidationError(outcome.err) /\ ~is_retryable(outcome.err)
       \/ Retrying(max_retries) /\ attempt >= max_attempts - 1 )
  => /\ pc = "done"
     /\ result.tag = "err"
     /\ result.err = outcome.err
     /\ result.err.serial = calls

\* C5 witness: an authentication failure on the second of four attempts
C5_Witness ==
  /\ pc = "done" /\ calls = 2 /\ max_attempts = 4
  /\ result.tag = "err" /\ result.err.kind = "ApiError"
  /\ result.err.api = "AuthenticationFailed"

\* C6: with max_retries = None or Some(0) there is exactly one backend call,
\* with the single message [user(prompt)], no sleep, no history growth, and a
\* failure returns the underlying error unchanged whatever its kind.
C6_NoRetriesSingleCall ==
  ~Retrying(max_retries) /\ pc # "idle" =>
    /\ pc \in {"await", "done"}
    /\ calls = 1
    /\ sleeps = 0
    /\ sent = <<User(PromptText)>>
    /\ messages = <<User(PromptText)>>
    /\ pc = "done" /\ outcome.tag = "err" => result.tag = "err" /\ result.err = outcome.err
    /\ pc = "done" /\ outcome.tag = "ok" => result.tag = "ok" /\ result.raw = outcome.raw

\* C6 witness: Some(0) and a retryable error returned after one call
C6_Witness ==
  /\ pc = "done" /\ max_retries = SomeRetries(0)
  /\ result.tag = "err" /\ is_retryable(result.err)

\* C7: the coordinator ends with exactly one outcome and the unreachable!()
\* after the attempt loop is never reached, for any max_retries.
C7_NeverPanics == pc \notin {"panic_overflow", "panic_unreachable"}

\* C7 for every max_retries below usize::MAX
C7_NeverPanicsWithoutOverflow ==
  (max_retries.some => max_retries.n < USIZE_MAX) =>
    /\ pc \notin {"panic_overflow", "panic_unreachable"}
    /\ pc = "done" <=> result.tag # "none"

\* C8: a failure of the validation hook drives the same transition as a JSON
\* parse failure: with attempts remaining the pair (assistant: raw_response,
\* user: feedback) is appended and the call is retried, for every error value
\* the hook may return.
C8_HookFailureRetriedLikeParseFailure ==
  ( /\ Handled /\ Retrying(max_retries)
    /\ outcome.tag = "err" /\ outcome.origin \in {"hook", "parse"}
    /\ attempt < max_attempts - 1 )
  => pc = "sleep" /\ messages = sent \o FailurePair(outcome.ctx)

\* C8 for the hook errors that are ValidationError values
C8_ValidationHookFailureRetried ==
  ( /\ Handled /\ Retrying(max_retries)
    /\ outcome.tag = "err" /\ outcome.origin \in {"hook", "parse"}
    /\ IsValidationError(outcome.err)
    /\ attempt < max_attempts - 1 )
  => pc = "sleep" /\ messages = sent \o FailurePair(outcome.ctx)

\* C9: the assistant message appended after a validation failure is exactly
\* the raw text the backend returned for the failed attempt, also when the
\* response was reshaped before validation.
C9_AssistantIsBackendText ==
  (pc = "sleep" /\ IsValidationError(outcome.err) /\ outcome.ctx.some)
  => messages[Len(messages) - 1] = Assistant(outcome.backend)

\* C9 for the calls whose response is not reshaped
C9_AssistantIsBackendTextUnreshaped ==
  ( /\ pc = "sleep" /\ IsValidationError(outcome.err) /\ outcome.ctx.some
    /\ ~(extract_adjacently_tagged_info(generate_enum_schema(client.target)).some
         /\ IsJsonText(outcome.backend)) )
  => messages[Len(messages) - 1] = Assistant(outcome.backend)

(***************************************************************************)
(* Properties of the enum adaptation pipeline (specification SpecEnum).    *)
(***************************************************************************)
VariantKinds(desc) == {desc.variants[i].kind : i \in 1..Len(desc.variants)}

\* A named-field variant all of whose fields are Option
HasAllOptionalNamedVariant(desc) ==
  \E i \in 1..Len(desc.variants) :
    /\ desc.variants[i].kind = "named"
    /\ \A j \in 1..Len(desc.variants[i].fields) : is_option_type(desc.variants[i].fields[j].ty)

\* C10: adapting an Adjacent-tagged enum schema and then reshaping a response
\* that conforms to the adapted schema yields the original Adjacent-shaped
\* instance (tag + content), for unit, single-field tuple, multi-field tuple
\* and named-field variants and for enums that mix these kinds.
C10_RoundTrip == stage = "reshaped" => reshaped = expected

\* C10 for the enums whose variants are all unit or named-field with at
\* least one field that is not an Option
C10_RoundTripNamedAndUnit ==
  ( /\ stage = "reshaped"
    /\ VariantKinds(enum_desc) \subseteq {"unit", "named"}
    /\ ~HasAllOptionalNamedVariant(enum_desc) )
  => reshaped = expected

(***************************************************************************)
(* The Instructor derive for structs (rstructor_derive, struct_schema.rs)  *)
(* and the SchemaType implementations of the library types it calls        *)
(* (src/schema/mod.rs).                                                    *)
(***************************************************************************)
\* Largest number of fields of an explored struct.
MaxFields == 2

LowerLetters == "abcdefghijklmnopqrstuvwxyz"

UpperLetters == "ABCDEFGHIJKLMNOPQRSTUVWXYZ"

\* char::is_uppercase
IsUpperChar(c) == StrFind(UpperLetters, c) # 0

\* char::to_ascii_uppercase
UpperChar(c) ==
  IF StrFind(LowerLetters, c) = 0 THEN c
  ELSE SubSeq(UpperLetters, StrFind(LowerLetters, c), StrFind(LowerLetters, c))

\* char::to_ascii_lowercase
LowerChar(c) ==
  IF StrFind(UpperLetters, c) = 0 THEN c
  ELSE SubSeq(LowerLetters, StrFind(UpperLetters, c), StrFind(UpperLetters, c))

\* str::to_uppercase
RECURSIVE UpperStr(_)
UpperStr(str) ==
  IF str = "" THEN "" ELSE UpperChar(SubSeq(str, 1, 1)) \o UpperStr(SubSeq(str, 2, Len(str)))

\* str::to_lowercase
RECURSIVE LowerStr(_)
LowerStr(str) ==
  IF str = "" THEN "" ELSE LowerChar(SubSeq(str, 1, 1)) \o LowerStr(SubSeq(str, 2, Len(str)))

\* str::split('_') as a sequence of strings
RECURSIVE SplitUnderscore(_)
SplitUnderscore(str) ==
  IF StrFind(str, "_") = 0 THEN <<str>>
  ELSE <<SubSeq(str, 1, StrFind(str, "_") - 1)>>
       \o SplitUnderscore(SubSeq(str, StrFind(str, "_") + 1, Len(str)))

\* str::replace('_', "-")
RECURSIVE UnderscoreToDash(_)
UnderscoreToDash(str) ==
  IF str = "" THEN ""
  ELSE (IF SubSeq(str, 1, 1) = "_" THEN "-" ELSE SubSeq(str, 1, 1))
       \o UnderscoreToDash(SubSeq(str, 2, Len(str)))

\* first.to_ascii_uppercase() followed by the rest, lowercased or as it is
Capitalized(part, lower_rest) ==
  IF part = "" THEN ""
  ELSE UpperChar(SubSeq(part, 1, 1))
       \o (IF lower_rest THEN LowerStr(SubSeq(part, 2, Len(part))) ELSE SubSeq(part, 2, Len(part)))

RECURSIVE CapitalizedParts(_, _)
CapitalizedParts(parts, lower_rest) ==
  IF parts = <<>> THEN ""
  ELSE Capitalized(Head(parts), lower_rest) \o CapitalizedParts(Tail(parts), lower_rest)

\* struct_schema::pascal_to_snake_case; i is the 0-based index of the first
\* character of str in the whole name
RECURSIVE SnakeFrom(_, _)
SnakeFrom(str, i) ==
  IF str = "" THEN ""
  ELSE (IF IsUpperChar(SubSeq(str, 1, 1)) /\ i > 0 THEN "_" ELSE "")
       \o LowerChar(SubSeq(str, 1, 1)) \o SnakeFrom(SubSeq(str, 2, Len(str)), i + 1)

pascal_to_snake_case(name) == SnakeFrom(name, 0)

\* struct_schema::apply_rename_all
apply_rename_all(name, rename_all) ==
  IF rename_all = "lowercase" THEN LowerStr(name)
  ELSE IF rename_all = "UPPERCASE" THEN UpperStr(name)
  ELSE IF rename_all = "camelCase"
    THEN IF StrContains(name, "_")
           THEN LowerStr(Head(SplitUnderscore(name)))
                \o CapitalizedParts(Tail(SplitUnderscore(name)), TRUE)
           ELSE IF name = "" THEN ""
           ELSE LowerChar(SubSeq(name, 1, 1)) \o SubSeq(name, 2, Len(name))
  ELSE IF rename_all = "PascalCase" THEN CapitalizedParts(SplitUnderscore(name), FALSE)
  ELSE IF rename_all = "snake_case" THEN pascal_to_snake_case(name)
  ELSE IF rename_all = "SCREAMING_SNAKE_CASE" THEN UpperStr(pascal_to_snake_case(name))
  ELSE IF rename_all = "kebab-case" THEN UnderscoreToDash(pascal_to_snake_case(name))
  ELSE IF rename_all = "SCREAMING-KEBAB-CASE"
    THEN UnderscoreToDash(UpperStr(pascal_to_snake_case(name)))
  ELSE name

\* A named field of a struct with its #[serde(rename)] and #[llm(description)]
\* attributes ("" is None).
NamedField(ident, ty, serde_rename, description) ==
  [ident |-> ident, ty |-> ty, serde_rename |-> serde_rename, description |-> description]

\* A struct the derive is applied to, with its container attributes
\* #[serde(rename_all)], #[llm(description)] and #[llm(title)] ("" is None).
StructDesc(name, rename_all, description, title, fields) ==
  [name |-> name, rename_all |-> rename_all, description |-> description,
   title |-> title, fields |-> fields]

\* type_utils::get_core_type_name ("" is None)
RECURSIVE get_core_type_name(_)
get_core_type_name(ty) ==
  IF ty.name = "" THEN ""
  ELSE IF ty.name \in {"Option", "Box"} \cup ArrayNames
    THEN IF Len(ty.args) > 0 THEN get_core_type_name(ty.args[1]) ELSE ""
  ELSE ty.name

\* A derive that recognises no type as a reference to the enclosing struct.
NeverSelfReference(ty, struct_name) == FALSE

\* type_utils::is_self_reference
is_self_reference(ty, struct_name) == get_core_type_name(ty) = struct_name

\* type_utils::is_array_type
is_array_type(ty) == ty.name \in ArrayNames

\* type_utils::is_map_type
is_map_type(ty) == ty.name \in MapNames

\* type_utils::is_box_type
is_box_type(ty) == ty.name = "Box"

\* type_utils::is_tuple_type
is_tuple_type(ty) == ty.name = ""

\* type_utils::is_json_value_type (the path is a single segment here)
is_json_value_type(ty) == ty.name = "Value"

\* The first pass of generate_struct_schema over the named fields.
has_self_reference(desc) ==
  \E i \in 1..Len(desc.fields) : is_self_reference(desc.fields[i].ty, desc.name)

\* The wire name of a field: #[serde(rename)], else the container's
\* rename_all applied to the identifier, else the identifier.
field_name(f, rename_all) ==
  IF f.serde_rename # "" THEN f.serde_rename
  ELSE IF rename_all # "" THEN apply_rename_all(f.ident, rename_all)
  ELSE f.ident

\* What a schema() call yields when the call never returns: schema() of a
\* type entered again while it is still being computed recurses without end
\* and the thread overflows its stack.
StackOverflow == [k |-> "overflow", s |-> "", n |-> 0, a |-> <<>>, o |-> EmptyMap]

RECURSIVE Overflows(_)
Overflows(j) ==
  \/ j.k = "overflow"
  \/ IsObj(j) /\ \E key \in DOMAIN j.o : Overflows(j.o[key])
  \/ IsArr(j) /\ \E i \in 1..Len(j.a) : Overflows(j.a[i])

TypeOnly(schema_type) == JObj([type |-> JStr(schema_type)])

DateProp ==
  JObj([type |-> JStr("string"), format |-> JStr("date-time"),
        description |-> JStr("ISO-8601 formatted date and time")])

UuidProp ==
  JObj([type |-> JStr("string"), format |-> JStr("uuid"),
        description |-> JStr("UUID identifier string")])

\* {"$ref": "#/$defs/<struct name>"}
SelfRef(struct_name) == JObj(MapPut(EmptyMap, "$ref", JStr("#/$defs/" \o struct_name)))

\* if let Value::Object(m) = props_json { m } else { {"type": "object"} }
AsProps(j) == IF IsObj(j) \/ j = StackOverflow THEN j ELSE TypeOnly("object")

\* props.insert("description", ..) when the field has a description
WithDescription(props, description) ==
  IF description = "" \/ ~IsObj(props) THEN props ELSE Put(props, "description", JStr(description))

\* entry("description").or_insert_with(..) of the map implementations
PlaceholderSchema(value_schema) ==
  IF ~IsObj(value_schema) \/ Has(value_schema, "description") THEN value_schema
  ELSE Put(value_schema, "description",
           JStr("Placeholder key. Use a real key string instead of this placeholder."))

\* impl SchemaType for HashMap<String, V> and BTreeMap<String, V>
MapSchema(value_schema) ==
  JObj([type |-> JStr("object"),
        description |-> JStr("Object map keyed by strings. Use meaningful keys; do not use the placeholder key."),
        properties |-> JObj([KEY |-> PlaceholderSchema(value_schema)]),
        additionalProperties |-> value_schema,
        minProperties |-> JNum(1)])

\* impl SchemaType for Value
ValueSchema ==
  JObj([type |-> StrArr(<<"object", "array", "string", "number", "integer", "boolean", "null">>)])

RECURSIVE SchemaType_schema(_, _, _)
RECURSIVE generate_struct_schema(_, _, _)
RECURSIVE field_prop(_, _, _, _)
RECURSIVE PropertiesOf(_, _, _, _)

\* <ty as SchemaType>::schema().to_json(): the library implementations of
\* src/schema/mod.rs and, for a struct of the crate, the derived one.  crate
\* maps the name of each struct of the program to its descriptor; stack is
\* the set of structs whose schema() is being computed.
SchemaType_schema(ty, crate, stack) ==
  IF ty.name \in {"Option", "Box"} THEN SchemaType_schema(ty.args[1], crate, stack)
  ELSE IF ty.name = "Vec"
    THEN JObj([type |-> JStr("array"), items |-> SchemaType_schema(ty.args[1], crate, stack)])
  ELSE IF ty.name \in MapNames THEN MapSchema(SchemaType_schema(ty.args[2], crate, stack))
  ELSE IF ty.name = "NaiveDate" THEN JObj([type |-> JStr("string"), format |-> JStr("date")])
  ELSE IF ty.name = "Value" THEN ValueSchema
  ELSE IF ty.name \in {"String", "bool", "f64", "f32"} \cup (IntegerNames \ {"i128", "u128"})
    THEN TypeOnly(get_schema_type_from_rust_type(ty))
  ELSE generate_struct_schema(crate[ty.name], crate, stack)

\* The items of an array field; ty is the array type.
ArrayItems(ty, struct_name, crate, stack) ==
  IF Len(ty.args) = 0 THEN TypeOnly("string")
  ELSE IF ty.args[1].name \in {"DateTime", "NaiveDateTime", "NaiveDate", "Date"} THEN DateProp
  ELSE IF ty.args[1].name = "Uuid" THEN UuidProp
  ELSE IF get_schema_type_from_rust_type(ty.args[1]) = "object"
    THEN IF is_self_reference(ty.args[1], struct_name) THEN SelfRef(struct_name)
         ELSE SchemaType_schema(ty.args[1], crate, stack)
  ELSE TypeOnly(get_schema_type_from_rust_type(ty.args[1]))

\* The property of a map field; ty is the map type.
MapProp(ty, crate, stack) ==
  IF Len(ty.args) < 2 THEN TypeOnly("object")
  ELSE JObj([type |-> JStr("object"),
             additionalProperties |-> SchemaType_schema(ty.args[2], crate, stack)])

\* The property of a Box field; ty is the Box type.
BoxProp(ty, crate, stack) ==
  IF Len(ty.args) = 0 THEN TypeOnly("object")
  ELSE IF get_schema_type_from_rust_type(ty.args[1]) = "object"
    THEN AsProps(SchemaType_schema(ty.args[1], crate, stack))
  ELSE TypeOnly(get_schema_type_from_rust_type(ty.args[1]))

\* One element of prefixItems.
TupleElement(elem_ty, crate, stack) ==
  IF get_schema_type_from_rust_type(elem_ty) = "object"
    THEN SchemaType_schema(elem_ty, crate, stack)
  ELSE TypeOnly(get_schema_type_from_rust_type(elem_ty))

\* The property of a tuple field; ty is the tuple type.
TupleProp(ty, crate, stack) ==
  JObj([type |-> JStr("array"),
        prefixItems |-> JArr([i \in 1..Len(ty.args) |-> TupleElement(ty.args[i], crate, stack)]),
        minItems |-> JNum(Len(ty.args)),
        maxItems |-> JNum(Len(ty.args))])

\* Whether ty or, for an optional field, the type inside its Option
\* satisfies the test.
ActualType(ty) == IF is_option_type(ty) THEN get_option_inner_type(ty) ELSE ty

\* field_prop of generate_struct_schema: the property of one field before
\* its description is added.
field_prop(ty, struct_name, crate, stack) ==
  IF ty.name \in {"DateTime", "NaiveDateTime", "NaiveDate", "Date"} THEN DateProp
  ELSE IF ty.name = "Uuid" THEN UuidProp
  ELSE IF is_array_type(ActualType(ty))
    THEN JObj([type |-> JStr(get_schema_type_from_rust_type(ty)),
               items |-> ArrayItems(ActualType(ty), struct_name, crate, stack)])
  ELSE IF is_json_value_type(ActualType(ty)) THEN JObj(EmptyMap)
  ELSE IF is_map_type(ActualType(ty)) THEN MapProp(ActualType(ty), crate, stack)
  ELSE IF is_box_type(ActualType(ty)) THEN BoxProp(ActualType(ty), crate, stack)
  ELSE IF is_tuple_type(ActualType(ty)) THEN TupleProp(ActualType(ty), crate, stack)
  ELSE IF ty.name # "" /\ get_schema_type_from_rust_type(ty) = "object"
    THEN AsProps(SchemaType_schema(ActualType(ty), crate, stack))
  ELSE TypeOnly(get_schema_type_from_rust_type(ty))

\* The property setters in field order: obj.insert(field_name, props).
PropertiesOf(fields, desc, crate, stack) ==
  IF fields = <<>> THEN EmptyMap
  ELSE MapPut(PropertiesOf(SubSeq(fields, 1, Len(fields) - 1), desc, crate, stack),
              field_name(fields[Len(fields)], desc.rename_all),
              WithDescription(field_prop(fields[Len(fields)].ty, desc.name, crate, stack),
                              fields[Len(fields)].description))

\* A derive that pushes every field's name to required.
RequiredOfAll(fields, rename_all) ==
  [i \in 1..Len(fields) |-> field_name(fields[i], rename_all)]

\* The required setters in field order: one push for each field whose type
\* is not Option.
RECURSIVE RequiredOf(_, _)
RequiredOf(fields, rename_all) ==
  IF fields = <<>> THEN <<>>
  ELSE (IF is_option_type(Head(fields).ty) THEN <<>> ELSE <<field_name(Head(fields), rename_all)>>)
       \o RequiredOf(Tail(fields), rename_all)

\* The container setters: description and title.
ContainerSetters(map, desc) ==
  [key \in DOMAIN map \cup (IF desc.description = "" THEN {} ELSE {"description"}) |->
     IF key = "description" /\ desc.description # "" THEN JStr(desc.description)
     ELSE IF key = "title" /\ desc.title # "" THEN JStr(desc.title)
     ELSE map[key]]

\* schema_obj of the derived schema()
SchemaObj(desc, crate, stack) ==
  JObj(MapPut(MapPut(ContainerSetters([type |-> JStr("object"), title |-> JStr(desc.name)], desc),
                     "properties", JObj(PropertiesOf(desc.fields, desc, crate, stack))),
              "required", StrArr(RequiredOf(desc.fields, desc.rename_all))))

\* root_schema of the derived schema() of a self-referential struct
RootSchema(struct_name, schema_obj) ==
  JObj(MapPut(MapPut(EmptyMap, "$defs", JObj(MapPut(EmptyMap, struct_name, schema_obj))),
              "$ref", JStr("#/$defs/" \o struct_name)))

\* The schema() the derive generates for desc, run while the schema() of
\* the structs in stack is being computed.
generate_struct_schema(desc, crate, stack) ==
  IF desc.name \in stack THEN StackOverflow
  ELSE IF has_self_reference(desc)
    THEN RootSchema(desc.name, SchemaObj(desc, crate, stack \cup {desc.name}))
  ELSE SchemaObj(desc, crate, stack \cup {desc.name})

(***************************************************************************)
(* The structs explored.  The program holds three structs: Leaf (plain),   *)
(* Tree (self-referential through Vec<Tree>) and Node, the struct under    *)
(* study, whose 1..MaxFields fields are drawn from FieldShapes.            *)
(***************************************************************************)
NodeTy == PathTy("Node")

LeafStruct ==
  StructDesc("Leaf", "", "", "", <<NamedField("label", PathTy("String"), "", "")>>)

TreeStruct ==
  StructDesc("Tree", "", "", "",
             <<NamedField("value", PathTy("u32"), "", ""),
               NamedField("branches", VecOf(PathTy("Tree")), "", "")>>)

FieldShapes ==
  { NamedField("name", PathTy("String"), "", ""),
    NamedField("file_size", OptionOf(PathTy("u64")), "", "Size in bytes"),
    NamedField("tags", VecOf(PathTy("String")), "", ""),
    NamedField("counts", MapOf(PathTy("u32")), "", ""),
    NamedField("leaf", PathTy("Leaf"), "", ""),
    NamedField("maybe_leaf", OptionOf(PathTy("Leaf")), "", ""),
    NamedField("tree", PathTy("Tree"), "", ""),
    NamedField("forest", VecOf(PathTy("Tree")), "", ""),
    NamedField("tree_index", MapOf(PathTy("Tree")), "", ""),
    NamedField("children", VecOf(NodeTy), "", ""),
    NamedField("boxed_children", VecOf(BoxOf(NodeTy)), "", ""),
    NamedField("maybe_children", OptionOf(VecOf(BoxOf(NodeTy))), "", "Children nodes"),
    NamedField("parent", BoxOf(NodeTy), "", ""),
    NamedField("next", OptionOf(BoxOf(NodeTy)), "", ""),
    NamedField("by_name", MapOf(NodeTy), "", ""),
    NamedField("counted", TupleOf(<<PathTy("u32"), VecOf(NodeTy)>>), "", ""),
    NamedField("linked", TupleOf(<<PathTy("String"), BoxOf(NodeTy)>>), "", "") }

\* The field with a #[serde(rename = ..)] attribute.
Renamed(f, serde_rename) == [f EXCEPT !.serde_rename = serde_rename]

FieldLists ==
  {fs \in UNION {[1..n -> FieldShapes] : n \in 1..MaxFields} :
     \A i, j \in 1..Len(fs) : i # j => fs[i] # fs[j]}

StructDescs ==
  { StructDesc("Node", rename_all, "", "", [fs EXCEPT ![1] = Renamed(fs[1], serde_rename)]) :
      rename_all \in {"", "camelCase"}, serde_rename \in {"", "id"}, fs \in FieldLists }

\* The structs of the program that derive applied to desc belongs to.
Crate(desc) == [n \in {"Leaf", "Tree", desc.name} |->
                  IF n = "Leaf" THEN LeafStruct ELSE IF n = "Tree" THEN TreeStruct ELSE desc]

\* Node::schema() is called and returns, or overflows the stack.
DeriveStruct ==
  /\ struct_pc = "start"
  /\ LET s == generate_struct_schema(struct_desc, Crate(struct_desc), {})
     IN IF Overflows(s)
          THEN struct_pc' = "stack_overflow" /\ struct_schema' = JNull
          ELSE struct_pc' = "returned" /\ struct_schema' = s
  /\ UNCHANGED struct_desc
  /\ UNCHANGED outside_struct

InitStruct ==
  /\ CoordIdle /\ EnumIdle /\ LibIdleBut("struct")
  /\ struct_pc = "start" /\ struct_desc \in StructDescs /\ struct_schema = JNull

NextStruct == DeriveStruct

SpecStruct == InitStruct /\ [][NextStruct]_vars

(***************************************************************************)
(* Claims about the struct derive.                                         *)
(***************************************************************************)
\* ty names the struct at any depth of its generic arguments or elements.
RECURSIVE Mentions(_, _)
Mentions(ty, struct_name) ==
  ty.name = struct_name \/ \E i \in 1..Len(ty.args) : Mentions(ty.args[i], struct_name)

\* desc has a field whose type contains desc itself.
SelfReferential(desc) ==
  \E i \in 1..Len(desc.fields) : Mentions(desc.fields[i].ty, desc.name)

\* schema() of the explored struct has been run.
StructDone == struct_pc \in {"returned", "stack_overflow"}

\* j is {"$defs": {struct_name: body}, "$ref": "#/$defs/<struct_name>"}
IsRefRoot(j, struct_name) ==
  /\ IsObj(j) /\ DOMAIN j.o = {"$defs", "$ref"}
  /\ j.o["$ref"] = JStr("#/$defs/" \o struct_name)
  /\ IsObj(j.o["$defs"]) /\ DOMAIN j.o["$defs"].o = {struct_name}

\* The wrappers of a self-reference the array branch handles: Vec<Self>,
\* Vec<Box<Self>> and either inside Option.
ArrayWrapped(ty, struct_name) ==
  /\ is_array_type(ActualType(ty))
  /\ ActualType(ty).args[1] \in {PathTy(struct_name), BoxOf(PathTy(struct_name))}

\* C11: for every self-referential struct, whatever wrapper carries the
\* self-reference (Vec, Option<Vec<Box>>, Box, Option<Box>, a tuple, a map
\* value), schema() returns, and returns a root of the form
\* {"$defs": {name: body}, "$ref": "#/$defs/name"}.
C11_SelfReferenceTerminatesWithRefRoot ==
  (StructDone /\ SelfReferential(struct_desc)) =>
    struct_pc = "returned" /\ IsRefRoot(struct_schema, struct_desc.name)

\* C11 for the structs whose every self-reference is an array of the struct
\* (or of Box of it), possibly inside Option.
C11_ArraySelfReferenceTerminatesWithRefRoot ==
  (/\ StructDone /\ SelfReferential(struct_desc)
   /\ \A i \in 1..Len(struct_desc.fields) :
        Mentions(struct_desc.fields[i].ty, struct_desc.name)
          => ArrayWrapped(struct_desc.fields[i].ty, struct_desc.name)) =>
    struct_pc = "returned" /\ IsRefRoot(struct_schema, struct_desc.name)

\* j has one of the keys at some depth.
RECURSIVE HasKeyDeep(_, _)
HasKeyDeep(j, keys) ==
  \/ IsObj(j) /\ (DOMAIN j.o \cap keys # {} \/ \E key \in DOMAIN j.o : HasKeyDeep(j.o[key], keys))
  \/ IsArr(j) /\ \E i \in 1..Len(j.a) : HasKeyDeep(j.a[i], keys)

\* C12: the schema of a struct none of whose fields reaches the struct itself
\* has no "$ref" and no "$defs" key at any depth, also when one of its fields
\* is another struct that is self-referential.
C12_NoRefWithoutSelfReference ==
  (StructDone /\ ~SelfReferential(struct_desc)) =>
    struct_pc = "returned" /\ ~HasKeyDeep(struct_schema, {"$ref", "$defs"})

\* C12 for the structs no field of which mentions a self-referential struct.
C12_NoRefWithoutRecursiveField ==
  (/\ StructDone
   /\ \A i \in 1..Len(struct_desc.fields) :
        /\ ~Mentions(struct_desc.fields[i].ty, struct_desc.name)
        /\ ~Mentions(struct_desc.fields[i].ty, TreeStruct.name)) =>
    struct_pc = "returned" /\ ~HasKeyDeep(struct_schema, {"$ref", "$defs"})

\* The object schema of the struct inside a returned schema: the entry of
\* $defs for a $defs/$ref root, the schema itself otherwise.
BodyOf(j, struct_name) ==
  IF Has(j, "$defs") /\ Has(j.o["$defs"], struct_name) THEN j.o["$defs"].o[struct_name] ELSE j

\* Every field of desc whose type contains desc is an array of it.
OnlyArraySelfReferences(desc) ==
  \A i \in 1..Len(desc.fields) :
    Mentions(desc.fields[i].ty, desc.name) => ArrayWrapped(desc.fields[i].ty, desc.name)

\* The property of field f in the returned schema is an array whose items
\* are the reference to the struct, with nothing but a description besides.
IsArrayOfSelfRef(j, desc, f) ==
  LET body == BodyOf(j, desc.name)
      wire == field_name(f, desc.rename_all)
  IN /\ Has(body, "properties") /\ Has(body.o.properties, wire)
     /\ LET prop == body.o.properties.o[wire]
        IN /\ IsObj(prop) /\ {"type", "items"} \subseteq DOMAIN prop.o
           /\ DOMAIN prop.o \subseteq {"type", "items", "description"}
           /\ prop.o.type = JStr("array")
           /\ prop.o.items = SelfRef(desc.name)

\* C13: a field that is an array of the enclosing struct (Vec<Self>,
\* Vec<Box<Self>>, either inside Option) gets the property
\* {"type": "array", "items": {"$ref": "#/$defs/<StructName>"}}, never an
\* inline copy of the struct's schema: schema() returns when these are the
\* struct's only self-references, and whenever it returns the property has
\* that form.
C13_ArrayOfSelfIsRef ==
  \A i \in 1..(IF StructDone THEN Len(struct_desc.fields) ELSE 0) :
    (/\ ArrayWrapped(struct_desc.fields[i].ty, struct_desc.name)
     /\ (struct_pc = "returned" \/ OnlyArraySelfReferences(struct_desc))) =>
      /\ struct_pc = "returned"
      /\ IsArrayOfSelfRef(struct_schema, struct_desc, struct_desc.fields[i])

C13_Witness ==
  /\ struct_pc = "returned"
  /\ \E i \in 1..Len(struct_desc.fields) :
       /\ struct_desc.fields[i].ty = OptionOf(VecOf(BoxOf(NodeTy)))
       /\ IsArrayOfSelfRef(struct_schema, struct_desc, struct_desc.fields[i])

\* The wire names, as JSON strings, of the fields of desc that are Option
\* (optional = TRUE) or are not (optional = FALSE).
WireNames(desc, optional) ==
  {JStr(field_name(desc.fields[i], desc.rename_all)) :
     i \in {k \in 1..Len(desc.fields) : is_option_type(desc.fields[k].ty) = optional}}

\* The "required" array of the struct's object schema.
RequiredArray(j, struct_name) == BodyOf(j, struct_name).o.required.a

\* C14: "required" of the synthesized object schema holds exactly the wire
\* names (after #[serde(rename)] and rename_all) of the fields whose type is
\* not Option, each once, and no name of an Option field.
C14_RequiredIsNonOptionalFields ==
  struct_pc = "returned" =>
    /\ Has(BodyOf(struct_schema, struct_desc.name), "required")
    /\ Range(RequiredArray(struct_schema, struct_desc.name)) = WireNames(struct_desc, FALSE)
    /\ Len(RequiredArray(struct_schema, struct_desc.name))
         = Cardinality(WireNames(struct_desc, FALSE))
    /\ Range(RequiredArray(struct_schema, struct_desc.name)) \cap WireNames(struct_desc, TRUE) = {}

C14_Witness ==
  /\ struct_pc = "returned" /\ struct_desc.rename_all = "camelCase"
  /\ WireNames(struct_desc, TRUE) = {JStr("fileSize")}
  /\ RequiredArray(struct_schema, struct_desc.name) = <<JStr("id")>>

(***************************************************************************)
(* The strict-mode adapter (prepare_strict_schema,                         *)
(* add_additional_properties_false).                                       *)
(***************************************************************************)
\* Largest number of keywords wrapped around an explored object schema.
MaxNesting == 2

\* The keys of a set in the iteration order of a map
RECURSIVE KeysInOrder(_)
KeysInOrder(S) ==
  IF S = {} THEN <<>> ELSE Append(KeysInOrder(S \ {LastKey(S)}), LastKey(S))

\* is_object_type || has_properties
IsStrictTarget(j) == StrAt(j, "type", "object") \/ Has(j, "properties")

\* obj.insert("required", all property keys) unless there is no key
WithAllRequired(j) ==
  IF Has(j, "properties") /\ IsObj(j.o.properties) /\ DOMAIN j.o.properties.o # {}
    THEN Put(j, "required", StrArr(KeysInOrder(DOMAIN j.o.properties.o)))
  ELSE j

\* The changes add_additional_properties_false makes to the object itself.
StrictObject(j) ==
  IF IsStrictTarget(j) THEN WithAllRequired(Put(j, "additionalProperties", JBool(FALSE))) ELSE j

\* The keywords add_additional_properties_false descends into: those
\* holding a map of schemas, an array of schemas, one schema.
StrictMapKeywords == {"properties", "definitions", "$defs", "patternProperties"}

StrictArrayKeywords == {"allOf", "anyOf", "oneOf"}

StrictSchemaKeywords ==
  {"items", "additionalItems", "not", "if", "then", "else", "contains", "propertyNames"}

RECURSIVE add_additional_properties_false(_)

\* The recursive calls of add_additional_properties_false on the children.
StrictChildren(j) ==
  JObj([key \in DOMAIN j.o |->
          IF key \in StrictMapKeywords /\ IsObj(j.o[key])
            THEN JObj([p \in DOMAIN j.o[key].o |-> add_additional_properties_false(j.o[key].o[p])])
          ELSE IF key \in StrictArrayKeywords /\ IsArr(j.o[key])
            THEN JArr([i \in 1..Len(j.o[key].a) |-> add_additional_properties_false(j.o[key].a[i])])
          ELSE IF key \in StrictSchemaKeywords THEN add_additional_properties_false(j.o[key])
          ELSE j.o[key]])

add_additional_properties_false(value) ==
  IF IsObj(value) THEN StrictChildren(StrictObject(value)) ELSE value

\* Schema::to_json followed by add_additional_properties_false
prepare_strict_schema(value) == add_additional_properties_false(value)

(***************************************************************************)
(* The schemas explored: an object schema with zero, one or two            *)
(* properties, with or without "type": "object", with no "required", an    *)
(* empty one, a partial one or one naming a key that is not a property;    *)
(* alone or below up to MaxNesting of the keywords a derived or hand       *)
(* written schema nests schemas under.                                     *)
(***************************************************************************)
PropertyMaps ==
  { EmptyMap,
    [note |-> TypeOnly("string")],
    [note |-> TypeOnly("string"), data |-> TypeOnly("integer")] }

PriorRequired == {<<>>, <<"note">>, <<"status">>}

ObjectSchemas ==
  LET bare == {JObj([properties |-> JObj(p)]) : p \in PropertyMaps}
      typed == {Put(b, "type", JStr("object")) : b \in bare}
  IN (bare \cup typed)
     \cup {Put(b, "required", StrArr(r)) : b \in bare \cup typed, r \in PriorRequired}

Nestings ==
  {"items", "oneOf", "anyOf", "allOf", "$defs", "properties", "prefixItems", "additionalProperties"}

\* inner below the keyword, in the form the derives give that keyword.
Nest(keyword, inner) ==
  IF keyword = "items" THEN JObj([type |-> JStr("array"), items |-> inner])
  ELSE IF keyword \in StrictArrayKeywords
    THEN JObj(MapPut(EmptyMap, keyword, JArr(<<TypeOnly("string"), inner>>)))
  ELSE IF keyword = "$defs" THEN RootSchema("Node", inner)
  ELSE IF keyword = "properties"
    THEN JObj([type |-> JStr("object"), properties |-> JObj([output |-> inner]),
               required |-> StrArr(<<>>)])
  ELSE IF keyword = "prefixItems"
    THEN JObj([type |-> JStr("array"), prefixItems |-> JArr(<<inner>>),
               minItems |-> JNum(1), maxItems |-> JNum(1)])
  ELSE JObj([type |-> JStr("object"), additionalProperties |-> inner])

RECURSIVE NestedSchemas(_)
NestedSchemas(depth) ==
  IF depth = 0 THEN ObjectSchemas
  ELSE NestedSchemas(depth - 1)
       \cup {Nest(keyword, inner) : keyword \in Nestings, inner \in NestedSchemas(depth - 1)}

\* The keywords of hand-written schemas that no derive emits
HandWrittenKeywords ==
  {"additionalItems", "definitions", "not", "if", "then", "else", "patternProperties",
   "contains", "propertyNames"}

\* An object schema below one of them: a map of schemas for definitions and
\* patternProperties, one schema for the others
HandWrittenSchemas ==
  { JObj(MapPut(EmptyMap, keyword,
                IF keyword \in StrictMapKeywords THEN JObj([name |-> inner]) ELSE inner)) :
      keyword \in HandWrittenKeywords, inner \in ObjectSchemas }

\* The schemas explored, nested up to nesting deep
StrictInputs(nesting) == NestedSchemas(nesting) \cup HandWrittenSchemas

\* prepare_strict_schema(strict_in) is called and returns.
PrepareStrict ==
  /\ strict_pc = "start"
  /\ strict_pc' = "returned"
  /\ strict_out' = prepare_strict_schema(strict_in)
  /\ UNCHANGED strict_in
  /\ UNCHANGED outside_strict

InitStrict ==
  /\ CoordIdle /\ EnumIdle /\ LibIdleBut("strict")
  /\ strict_pc = "start" /\ strict_in \in StrictInputs(MaxNesting) /\ strict_out = JNull

NextStrict == PrepareStrict

SpecStrict == InitStrict /\ [][NextStrict]_vars

\* The objects inside j, j included.
RECURSIVE SubObjects(_)
SubObjects(j) ==
  IF IsObj(j) THEN {j} \cup UNION {SubObjects(j.o[key]) : key \in DOMAIN j.o}
  ELSE IF IsArr(j) THEN UNION {SubObjects(j.a[i]) : i \in 1..Len(j.a)}
  ELSE {}

\* node forbids additional properties and requires exactly its properties.
IsStrictNode(node) ==
  /\ Has(node, "additionalProperties") /\ node.o.additionalProperties = JBool(FALSE)
  /\ Has(node, "required") /\ IsArr(node.o.required)
  /\ Range(node.o.required.a) = {JStr(key) : key \in DOMAIN node.o.properties.o}
  /\ Len(node.o.required.a) = Cardinality(DOMAIN node.o.properties.o)

\* C15: after prepare_strict_schema every node of the schema that has a
\* "properties" map, an empty one included, at any depth, has
\* additionalProperties false and a "required" array of exactly the keys of
\* its properties, whatever "required" held before.
C15_EveryPropertiesNodeIsStrict ==
  strict_pc = "returned" =>
    \A node \in SubObjects(strict_out) :
      (Has(node, "properties") /\ IsObj(node.o.properties)) => IsStrictNode(node)

\* C15 for the nodes with at least one property that are not below
\* prefixItems.
C15_WalkedNonEmptyNodeIsStrict ==
  (strict_pc = "returned" /\ ~HasKeyDeep(strict_in, {"prefixItems"})) =>
    \A node \in SubObjects(strict_out) :
      (Has(node, "properties") /\ IsObj(node.o.properties) /\ DOMAIN node.o.properties.o # {})
        => IsStrictNode(node)

(***************************************************************************)
(* Claims about the enum derive.                                           *)
(***************************************************************************)
\* member is the oneOf member of variant v with the tag property
\* {enum: [variant name]}, the content property exactly when v has fields,
\* and the given required list.
IsTaggedMember(member, v, tag_name, content_name, required_vec) ==
  /\ IsObj(member) /\ Has(member, "properties") /\ Has(member, "required")
  /\ Has(member.o.properties, tag_name)
  /\ Has(member.o.properties.o[tag_name], "enum")
  /\ member.o.properties.o[tag_name].o["enum"] = StrArr(<<v.name>>)
  /\ DOMAIN member.o.properties.o
       = IF v.fields = <<>> THEN {tag_name} ELSE {tag_name, content_name}
  /\ member.o.required = StrArr(required_vec)

\* The enum's schema has been synthesized and is a oneOf.
EnumSynthesized == stage # "declared" /\ Has(schema, "oneOf")

\* C16: in the schema of an Adjacent{tag, content} enum every variant's
\* oneOf member has the properties tag ({enum: [variant name]}) and, when
\* the variant has fields, content; required is [tag] for a unit variant and
\* [tag, content] for every variant with at least one field, a single-field
\* tuple variant whose field is an Option included.
C16_AdjacentMembersRequireContent ==
  EnumSynthesized =>
    \A i \in 1..Len(enum_desc.variants) :
      IsTaggedMember(schema.o["oneOf"].a[i], enum_desc.variants[i],
                     enum_desc.tag, enum_desc.content,
                     IF enum_desc.variants[i].fields = <<>> THEN <<enum_desc.tag>>
                     ELSE <<enum_desc.tag, enum_desc.content>>)

\* v is a tuple variant with the single field Option<T>.
IsOptionNewtype(v) == v.kind = "tuple" /\ Len(v.fields) = 1 /\ is_option_type(v.fields[1].ty)

\* C16 for every variant but a single-field tuple variant of an Option,
\* whose member requires the tag only.
C16_AdjacentMembersRequireContentUnlessOption ==
  EnumSynthesized =>
    \A i \in 1..Len(enum_desc.variants) :
      IsTaggedMember(schema.o["oneOf"].a[i], enum_desc.variants[i],
                     enum_desc.tag, enum_desc.content,
                     IF enum_desc.variants[i].fields = <<>> \/ IsOptionNewtype(enum_desc.variants[i])
                       THEN <<enum_desc.tag>>
                     ELSE <<enum_desc.tag, enum_desc.content>>)

(***************************************************************************)
(* Internally tagged enums (#[serde(tag = ..)] without content): the       *)
(* derive's schema for every sequence of 1..MaxVariants distinct variants  *)
(* and two tag names.                                                      *)
(***************************************************************************)
InternalEnumDescs ==
  { [name |-> "TaskResult", tag |-> tag, content |-> "", variants |-> vs] :
      tag \in {"status", "kind"},
      vs \in { q \in UNION {[1..n -> VariantShapes] : n \in 1..MaxVariants} :
                 \A i, j \in 1..Len(q) : i # j => q[i] # q[j] } }

InitInternal == CoordIdle /\ LibIdle /\ \E d \in InternalEnumDescs : EnumBlank(d)

NextInternal == Synthesize

SpecInternal == InitInternal /\ [][NextInternal]_vars

\* C17: in the schema of an Internal{tag} enum the oneOf member of a tuple
\* variant with one or more fields is tag-only: its properties are the tag
\* alone and its required list is [tag].
C17_InternalTupleMemberIsTagOnly ==
  EnumSynthesized =>
    \A i \in 1..Len(enum_desc.variants) :
      enum_desc.variants[i].kind = "tuple" =>
        /\ DOMAIN schema.o["oneOf"].a[i].o.properties.o = {enum_desc.tag}
        /\ schema.o["oneOf"].a[i].o.required = StrArr(<<enum_desc.tag>>)

\* What the derive emits instead: the payload of a tuple variant under the
\* property "value", required unless the variant is a single Option field.
C17_InternalTupleMemberHasValue ==
  EnumSynthesized =>
    \A i \in 1..Len(enum_desc.variants) :
      enum_desc.variants[i].kind = "tuple" =>
        /\ DOMAIN schema.o["oneOf"].a[i].o.properties.o = {enum_desc.tag, "value"}
        /\ schema.o["oneOf"].a[i].o.required
             = StrArr(IF IsOptionNewtype(enum_desc.variants[i]) THEN <<enum_desc.tag>>
                      ELSE <<enum_desc.tag, "value">>)

(***************************************************************************)
(* The response reshaper on its own: objects with or without the tag key,  *)
(* with up to MaxSiblings other keys, under descriptors with several tag   *)
(* value lists.                                                            *)
(***************************************************************************)
\* Largest number of keys beside the tag in an explored object.
MaxSiblings == 2

\* The values the tag key may hold; JNull stands for an absent key here.
TagChoices == {JNull, JNum(7), JBool(TRUE), JStr("Success"), JStr("Other")}

\* A nested instance of the enum in its internally tagged form.
NestedInstance == JObj([status |-> JStr("Success"), output |-> JStr("text")])

SiblingChoices ==
  [output |-> JStr("text"), data |-> JObj([output |-> JStr("text")]), note |-> NestedInstance]

ReshapeInputs ==
  { JObj([key \in keys \cup (IF tag = JNull THEN {} ELSE {"status"}) |->
            IF key = "status" /\ tag # JNull THEN tag ELSE SiblingChoices[key]]) :
      tag \in TagChoices,
      keys \in {K \in SUBSET DOMAIN SiblingChoices : Cardinality(K) <= MaxSiblings} }

ReshapeInfos ==
  { [some |-> TRUE, tag_key |-> "status", content_key |-> "data", tag_values |-> tv] :
      tv \in {<<>>, <<"Success">>, <<"Pending", "Success">>} }

\* transform_internally_to_adjacently_tagged(&mut json, &enum_info) is called
\* and returns.
ReshapeCall ==
  /\ reshape_pc = "start"
  /\ reshape_pc' = "returned"
  /\ reshape_out' = transform_internally_to_adjacently_tagged(reshape_json, reshape_info)
  /\ UNCHANGED <<reshape_json, reshape_info>>
  /\ UNCHANGED outside_reshape

InitReshape ==
  /\ CoordIdle /\ EnumIdle /\ LibIdleBut("reshape")
  /\ reshape_pc = "start" /\ reshape_json \in ReshapeInputs /\ reshape_info \in ReshapeInfos
  /\ reshape_out = JNull

NextReshape == ReshapeCall

SpecReshape == InitReshape /\ [][NextReshape]_vars

\* The tag of the object passed is a string listed in tag_values.
ListedTag ==
  /\ Has(reshape_json, reshape_info.tag_key)
  /\ IsStr(reshape_json.o[reshape_info.tag_key])
  /\ reshape_json.o[reshape_info.tag_key].s \in Range(reshape_info.tag_values)

\* The keys of the object passed other than the tag.
SiblingKeys == DOMAIN reshape_json.o \ {reshape_info.tag_key}

\* C18: transform_internally_to_adjacently_tagged leaves the keys of an
\* object as they are when its tag is absent, is not a string or is a
\* string outside tag_values, and leaves a tag-only object as it is; only an
\* object with a listed tag and at least one other key is rewritten, into
\* the tag and the content key.
C18_ReshapeFrame ==
  reshape_pc = "returned" =>
    /\ ~ListedTag => DOMAIN reshape_out.o = DOMAIN reshape_json.o
    /\ DOMAIN reshape_json.o = {reshape_info.tag_key} => reshape_out = reshape_json
    /\ reshape_out.o # reshape_json.o =>
         \/ ListedTag /\ SiblingKeys # {}
              /\ DOMAIN reshape_out.o = {reshape_info.tag_key, reshape_info.content_key}
         \/ ~ListedTag /\ \A key \in DOMAIN reshape_json.o :
                             reshape_out.o[key] # reshape_json.o[key] => IsObj(reshape_json.o[key])

C18_Witness ==
  /\ reshape_pc = "returned"
  /\ reshape_json.o = [status |-> JStr("Other"), output |-> JStr("text")]
  /\ reshape_info.tag_values = <<"Success">>
  /\ reshape_out = reshape_json

(***************************************************************************)
(* HTTP error classification (classify_api_error, check_response_status).  *)
(***************************************************************************)
Digits == "0123456789"

\* char::is_alphanumeric for the characters of the modelled texts
IsAlphanumeric(c) ==
  StrFind(LowerLetters, c) # 0 \/ StrFind(UpperLetters, c) # 0 \/ StrFind(Digits, c) # 0

AllDigits(str) == \A i \in 1..Len(str) : StrFind(Digits, SubSeq(str, i, i)) # 0

RECURSIVE DecimalValue(_)
DecimalValue(str) ==
  IF str = "" THEN 0
  ELSE DecimalValue(SubSeq(str, 1, Len(str) - 1)) * 10
       + (StrFind(Digits, SubSeq(str, Len(str), Len(str))) - 1)

\* Option<Duration>, in seconds
NoDuration == [some |-> FALSE, secs |-> 0]

SomeSecs(secs) == [some |-> TRUE, secs |-> secs]

\* str::parse::<u64>: decimal digits after an optional "+"
ParsesAsU64(value) ==
  LET digits == IF Len(value) > 0 /\ SubSeq(value, 1, 1) = "+" THEN SubSeq(value, 2, Len(value))
                ELSE value
  IN digits # "" /\ AllDigits(digits)

\* utils::parse_retry_after
parse_retry_after(value) ==
  IF ParsesAsU64(value)
    THEN SomeSecs(DecimalValue(IF SubSeq(value, 1, 1) = "+" THEN SubSeq(value, 2, Len(value))
                               ELSE value))
  ELSE NoDuration

\* utils::truncate_message (the modelled texts are ASCII)
truncate_message(msg, max_len) ==
  IF Len(msg) <= max_len THEN msg ELSE SubSeq(msg, 1, max_len) \o "..."

\* The candidate between the first two occurrences of quote, "" when it is
\* missing or is not a model name.
QuotedCandidate(text, quote) ==
  LET start == StrFind(text, quote)
      rest == SubSeq(text, start + 1, Len(text))
      end == StrFind(rest, quote)
      candidate == SubSeq(rest, 1, end - 1)
  IN IF start = 0 \/ end = 0 THEN ""
     ELSE IF Len(candidate) > 2
             /\ \A i \in 1..Len(candidate) :
                  \/ IsAlphanumeric(SubSeq(candidate, i, i))
                  \/ SubSeq(candidate, i, i) \in {"-", ".", "_"}
       THEN candidate
     ELSE ""

\* utils::extract_model_from_error ("" is None)
extract_model_from_error(error_text) ==
  IF QuotedCandidate(error_text, "'") # "" THEN QuotedCandidate(error_text, "'")
  ELSE QuotedCandidate(error_text, "\"")

\* utils::suggest_model ("" is None)
suggest_model(error_text) ==
  IF StrContains(error_text, "gpt") THEN "gpt-5.2"
  ELSE IF StrContains(error_text, "claude") \/ StrContains(error_text, "sonnet")
    THEN "claude-sonnet-4-5-20250929"
  ELSE IF StrContains(error_text, "gemini") THEN "gemini-3-flash-preview"
  ELSE ""

\* ApiErrorKind: the variant and its payload (fields a variant does not
\* carry are 0, "" or NoDuration).
ApiErrorKind(kind, code, text, retry_after, model, suggestion) ==
  [kind |-> kind, code |-> code, text |-> text, retry_after |-> retry_after,
   model |-> model, suggestion |-> suggestion]

UnitKind(kind) == ApiErrorKind(kind, 0, "", NoDuration, "", "")

\* A 404 test that looks for "model" in the body as it is written.
MentionsModelExactCase(error_text) == StrContains(error_text, "model")

\* error_lower.contains("model")
MentionsModel(error_text) == StrContains(LowerStr(error_text), "model")

\* The 404 arm of classify_api_error.
NotFoundKind(error_text, model_hint) ==
  IF MentionsModel(error_text)
    THEN ApiErrorKind("InvalidModel", 0, "", NoDuration,
                      IF model_hint # "" THEN model_hint
                      ELSE IF extract_model_from_error(LowerStr(error_text)) # ""
                        THEN extract_model_from_error(LowerStr(error_text))
                      ELSE "unknown",
                      suggest_model(LowerStr(error_text)))
  ELSE ApiErrorKind("Other", 404, error_text, NoDuration, "", "")

\* utils::classify_api_error (model_hint "" is None)
classify_api_error(status, error_text, retry_after, model_hint) ==
  IF status = 401 THEN UnitKind("AuthenticationFailed")
  ELSE IF status = 403 THEN UnitKind("PermissionDenied")
  ELSE IF status = 404 THEN NotFoundKind(error_text, model_hint)
  ELSE IF status = 400
    THEN ApiErrorKind("BadRequest", 0, truncate_message(error_text, 200), NoDuration, "", "")
  ELSE IF status = 413 THEN UnitKind("RequestTooLarge")
  ELSE IF status = 429 THEN ApiErrorKind("RateLimited", 0, "", retry_after, "", "")
  ELSE IF status \in {500, 502} THEN ApiErrorKind("ServerError", status, "", NoDuration, "", "")
  ELSE IF status = 503 THEN UnitKind("ServiceUnavailable")
  ELSE IF status \in 520..524 THEN ApiErrorKind("GatewayError", status, "", NoDuration, "", "")
  ELSE ApiErrorKind("Other", status, truncate_message(error_text, 500), NoDuration, "", "")


\* StatusCode::is_success
is_success(status) == status \in 200..299

\* The result of check_response_status: Ok(response), the API error built
\* from the classified kind, or the error of reading the body.
ResponseOk == [is_ok |-> TRUE, error |-> "", kind |-> UnitKind("")]

ApiError(kind) == [is_ok |-> FALSE, error |-> "ApiError", kind |-> kind]

BodyReadError == [is_ok |-> FALSE, error |-> "HttpError", kind |-> UnitKind("")]

\* utils::check_response_status on a response (a missing retry-after header
\* and one that is not a number both give no duration)
check_response_status(resp) ==
  IF ~is_success(resp.status)
    THEN IF resp.body_fails THEN BodyReadError
         ELSE ApiError(classify_api_error(resp.status, resp.body,
                                          parse_retry_after(resp.retry_after_header), ""))
  ELSE ResponseOk

(***************************************************************************)
(* Exploration of the classifier: responses with every status code the     *)
(* classifier distinguishes and the codes next to them, bodies with and    *)
(* without the word "model" in either case, and retry-after headers.       *)
(***************************************************************************)
StatusCodes ==
  {200, 204, 299, 300, 399, 400, 401, 402, 403, 404, 405, 412, 413, 414, 428, 429, 430,
   499, 500, 501, 502, 503, 504, 519, 520, 521, 522, 523, 524, 525, 599}

ErrorBodies ==
  {"", "not found", "Model 'gpt-9' not found", "the model \"claude-x\" is missing",
   "MODEL gemini-0 does not exist", "unknown model", "invalid request",
   "model 'my model' unknown - try 'gpt-4o'", "no \"gpt-9\" model - use 'gpt-4'"}

RetryAfterHeaders == {"", "5", "0", "+7", "30", "soon", "-1"}

ModelHints == {"", "gpt-4o"}

Responses ==
  [status : StatusCodes, body : ErrorBodies, retry_after_header : RetryAfterHeaders,
   body_fails : BOOLEAN, model_hint : ModelHints]

\* classify_api_error called with the response's status and body, the parsed
\* retry-after and a model hint.
Classify ==
  /\ api_pc = "start"
  /\ api_pc' = "returned"
  /\ api_result' = [via |-> "classify_api_error",
                    out |-> ApiError(classify_api_error(
                                       api_request.status, api_request.body,
                                       parse_retry_after(api_request.retry_after_header),
                                       api_request.model_hint))]
  /\ UNCHANGED <<api_request, outside_api>>

\* check_response_status called on the response.
CheckResponseStatus ==
  /\ api_pc = "start"
  /\ api_pc' = "returned"
  /\ api_result' = [via |-> "check_response_status", out |-> check_response_status(api_request)]
  /\ UNCHANGED <<api_request, outside_api>>

InitApi ==
  /\ CoordIdle /\ EnumIdle /\ LibIdleBut("api")
  /\ api_pc = "start"
  /\ api_request \in Responses
  /\ api_result = <<>>

NextApi == Classify \/ CheckResponseStatus

SpecApi == InitApi /\ [][NextApi]_vars

\* The kind the table gives for a status and body.
TableKind(status, body) ==
  CASE status = 401 -> "AuthenticationFailed"
    [] status = 403 -> "PermissionDenied"
    [] status = 404 -> IF \E i \in 1..(Len(body) - 4) : LowerStr(SubSeq(body, i, i + 4)) = "model"
                         THEN "InvalidModel" ELSE "Other"
    [] status = 400 -> "BadRequest"
    [] status = 413 -> "RequestTooLarge"
    [] status = 429 -> "RateLimited"
    [] status \in {500, 502} -> "ServerError"
    [] status = 503 -> "ServiceUnavailable"
    [] status \in 520..524 -> "GatewayError"
    [] OTHER -> "Other"

\* classify_api_error has classified the response.
Classified == api_pc = "returned" /\ ~api_result.out.is_ok /\ api_result.out.error = "ApiError"

\* C19: whenever an error response has been classified, directly or by
\* check_response_status, the kind is the one the table gives for the status
\* (and, for 404 only, for whether the body mentions "model" in any case), a
\* RateLimited kind carries the retry-after that was given, a header of "5"
\* being five seconds, and two responses that differ only in the body get
\* the same kind unless the status is 404.
C19_ClassifierEqualsTable ==
  Classified =>
    /\ api_result.out.kind.kind = TableKind(api_request.status, api_request.body)
    /\ api_request.status = 429 =>
         /\ api_result.out.kind.retry_after = parse_retry_after(api_request.retry_after_header)
         /\ api_request.retry_after_header = "5" =>
              api_result.out.kind.retry_after = SomeSecs(5)
    /\ api_request.status # 404 =>
         \A body \in ErrorBodies, hint \in ModelHints :
           classify_api_error(api_request.status, body,
                              parse_retry_after(api_request.retry_after_header), hint).kind
             = api_result.out.kind.kind

\* A 404 whose body spells "model" in capitals has been classified as
\* InvalidModel, and a 429 with Retry-After: 5 as RateLimited.
C19_Witness ==
  /\ Classified
  /\ \/ /\ api_request.status = 404
        /\ api_request.body = "MODEL gemini-0 does not exist"
        /\ api_result.out.kind.kind = "InvalidModel"
        /\ api_result.via = "check_response_status"
     \/ /\ api_request.status = 429
        /\ api_request.retry_after_header = "5"
        /\ api_result.out.kind.retry_after = SomeSecs(5)
        /\ api_result.via = "classify_api_error"


(***************************************************************************)
(* Interleaved invocations of generate_with_retry_with_history.  Every     *)
(* invocation is a future with its own locals (max_attempts, messages,     *)
(* attempt); generate_fn gets messages.clone().  The futures interleave at *)
(* their awaits: the call of generate_fn and the sleep before a retry.     *)
(***************************************************************************)
InvocationIds == {"first", "second"}

\* The target type of the invocations
InvTarget == CHOOSE t \in TargetTypes : t.name = "TaskResult"

\* One generate_fn result of each kind the loop tells apart, as call number
\* serial: a success, a validation error with raw-response context, a
\* retryable API error
OutcomeOfEachKind(serial) ==
  { CHOOSE out \in ClosureOutcomes(InvTarget, serial) : out.tag = "ok",
    CHOOSE out \in ClosureOutcomes(InvTarget, serial) :
      out.tag = "err" /\ IsValidationError(out.err) /\ out.ctx.some /\ out.origin = "parse",
    CHOOSE out \in ClosureOutcomes(InvTarget, serial) :
      out.tag = "err" /\ out.err.kind = "ApiError" /\ out.err.api = "RateLimited" }

OutcomesByAttempt == [serial \in 0..MaxRetriesExplored |-> OutcomeOfEachKind(serial)]

\* What generate_fn may return in attempt number serial of an invocation
InvOutcomes(serial) == inv_outcomes[serial]

\* The max_retries arguments of the invocations
InvRetries == {NoneRetries} \cup {SomeRetries(n) : n \in 0..MaxRetriesExplored}

\* The locals of an invocation that has not been called
NotCalled ==
  [pc |-> "idle", max_retries |-> NoneRetries, max_attempts |-> 0, attempt |-> 0,
   sent |-> <<>>, outcomes |-> <<>>]

\* generate_fn(messages.clone()).await: the invocation hands a copy of its
\* history to the closure and waits
InvInvoke(st, history) == [st EXCEPT !.pc = "await", !.sent = history]

\* A failure pushed onto the history of every running invocation
PushFailureToAll(histories, i, ctx) ==
  [j \in DOMAIN histories |->
     IF histories[j] = <<>> THEN <<>> ELSE HistoryAfterValidationFailure(histories[j], ctx)]

\* messages.push(assistant); messages.push(user): the pushes go to the local
\* vector of the invocation that got the validation error
PushFailure(histories, i, ctx) ==
  [histories EXCEPT ![i] = HistoryAfterValidationFailure(@, ctx)]

\* An invocation is called and runs to its first await.
InvBegin ==
  \E i \in InvocationIds, mr \in InvRetries :
    /\ inv_state[i].pc = "idle"
    /\ inv_messages' = [inv_messages EXCEPT ![i] = <<User(PromptText)>>]
    /\ inv_state' = [inv_state EXCEPT ![i] =
         InvInvoke([@ EXCEPT !.max_retries = mr,
                             !.max_attempts = IF Retrying(mr) THEN MaxAttempts(mr.n) ELSE 0],
                   <<User(PromptText)>>)]
    /\ UNCHANGED <<inv_outcomes, outside_inv>>

\* The generate_fn of an invocation without retries returns.
InvSingleAttemptReturns ==
  \E i \in InvocationIds :
    /\ inv_state[i].pc = "await" /\ ~Retrying(inv_state[i].max_retries)
    /\ \E out \in InvOutcomes(0) :
         inv_state' = [inv_state EXCEPT ![i].pc = "done",
                                        ![i].outcomes = Append(@, out)]
    /\ UNCHANGED <<inv_messages, inv_outcomes, outside_inv>>

\* The generate_fn of a retrying invocation returns and the invocation
\* returns its result.
InvAttemptReturns ==
  \E i \in InvocationIds :
    /\ inv_state[i].pc = "await" /\ Retrying(inv_state[i].max_retries)
    /\ \E out \in InvOutcomes(inv_state[i].attempt) :
         /\ Decision(out, IsLastAttempt(inv_state[i].attempt, inv_state[i].max_attempts))
              \in {"return_ok", "return_err"}
         /\ inv_state' = [inv_state EXCEPT ![i].pc = "done",
                                           ![i].outcomes = Append(@, out)]
    /\ UNCHANGED <<inv_messages, inv_outcomes, outside_inv>>

\* A validation error on an attempt that is not the last: the invocation
\* grows its history and sleeps.
InvValidationRetry ==
  \E i \in InvocationIds :
    /\ inv_state[i].pc = "await" /\ Retrying(inv_state[i].max_retries)
    /\ \E out \in InvOutcomes(inv_state[i].attempt) :
         /\ Decision(out, IsLastAttempt(inv_state[i].attempt, inv_state[i].max_attempts))
              = "retry_validation"
         /\ inv_messages' = PushFailure(inv_messages, i, out.ctx)
         /\ inv_state' = [inv_state EXCEPT ![i].pc = "sleep",
                                           ![i].outcomes = Append(@, out)]
    /\ UNCHANGED <<inv_outcomes, outside_inv>>

\* A retryable API error on an attempt that is not the last: the
\* invocation sleeps with its history as it is.
InvApiRetry ==
  \E i \in InvocationIds :
    /\ inv_state[i].pc = "await" /\ Retrying(inv_state[i].max_retries)
    /\ \E out \in InvOutcomes(inv_state[i].attempt) :
         /\ Decision(out, IsLastAttempt(inv_state[i].attempt, inv_state[i].max_attempts))
              = "retry_api"
         /\ inv_state' = [inv_state EXCEPT ![i].pc = "sleep",
                                           ![i].outcomes = Append(@, out)]
    /\ UNCHANGED <<inv_messages, inv_outcomes, outside_inv>>

\* The sleep of an invocation returns and its next attempt calls generate_fn.
InvWake ==
  \E i \in InvocationIds :
    /\ inv_state[i].pc = "sleep"
    /\ inv_state[i].attempt + 1 < inv_state[i].max_attempts
    /\ inv_state' = [inv_state EXCEPT ![i] =
         InvInvoke([@ EXCEPT !.attempt = @ + 1], inv_messages[i])]
    /\ UNCHANGED <<inv_messages, inv_outcomes, outside_inv>>

InitInvocations ==
  /\ CoordIdle /\ EnumIdle /\ LibIdleBut("invocations")
  /\ inv_state = [i \in InvocationIds |-> NotCalled]
  /\ inv_messages = [i \in InvocationIds |-> <<>>]
  /\ inv_outcomes = OutcomesByAttempt

NextInvocations ==
  InvBegin \/ InvSingleAttemptReturns \/ InvAttemptReturns \/ InvValidationRetry
    \/ InvApiRetry \/ InvWake

SpecInvocations == InitInvocations /\ [][NextInvocations]_vars

\* The history an invocation running alone has after the generate_fn
\* results outs, each of which was retried.
RECURSIVE HistoryAlone(_)
HistoryAlone(outs) ==
  IF outs = <<>> THEN <<User(PromptText)>>
  ELSE HistoryAfterValidationFailure(HistoryAlone(SubSeq(outs, 1, Len(outs) - 1)),
                                     outs[Len(outs)].ctx)

\* The generate_fn results of invocation i before the attempt whose call
\* is the latest.
EarlierOutcomes(i) == SubSeq(inv_state[i].outcomes, 1, inv_state[i].attempt)

\* C20: in every interleaving of the invocations, the message list handed
\* to the latest attempt of each invocation, and the invocation's history,
\* are the ones the invocation has when it runs alone with the same
\* generate_fn results.
C20_HistoriesAreIsolated ==
  \A i \in InvocationIds :
    inv_state[i].pc # "idle" =>
      /\ inv_state[i].sent = HistoryAlone(EarlierOutcomes(i))
      /\ inv_state[i].pc \in {"await", "done"} /\ Len(inv_state[i].outcomes) = inv_state[i].attempt
           => inv_messages[i] = inv_state[i].sent
      /\ inv_state[i].pc = "sleep" =>
           inv_messages[i] = HistoryAlone(inv_state[i].outcomes)

\* One invocation has grown its history by a validation failure and sent
\* it in a second attempt while the other, started before that failure, is
\* in its second attempt with a history that has not grown.
C20_Witness ==
  /\ inv_state["first"].pc = "await" /\ inv_state["first"].attempt = 1
  /\ Len(inv_state["first"].sent) = 3
  /\ inv_state["second"].pc = "await" /\ inv_state["second"].attempt = 1
  /\ Len(inv_state["second"].sent) = 1
  /\ inv_messages["first"] # inv_messages["second"]


(***************************************************************************)
(* Schema preparation for the constrained dialect, explored on its own:    *)
(* materialize_internal extracts the reversal descriptor from the schema   *)
(* of the target type and prepares the schema it sends.                    *)
(***************************************************************************)
\* extract_adjacently_tagged_info(&schema.to_json()) then prepare_gemini_schema(&schema)
AdaptSchema ==
  /\ gem_pc = "start"
  /\ gem_info' = extract_adjacently_tagged_info(gem_schema)
  /\ gem_out' = prepare_gemini_schema(gem_schema)
  /\ gem_pc' = "returned"
  /\ UNCHANGED <<gem_schema, outside_gem>>

\* A sample value of a keyword: a map for the definition keywords, false for
\* additionalProperties, a string for the others.
KeywordValue(keyword) ==
  IF keyword \in {"$defs", "definitions"} THEN JObj(EmptyMap)
  ELSE IF keyword = "additionalProperties" THEN JBool(FALSE)
  ELSE IF keyword = "$ref" THEN JStr("#/$defs/Other")
  ELSE JStr("sample")

\* The node with one more keyword ("" adds none).
Decorate(node, keyword) ==
  IF keyword = "" THEN node ELSE Put(node, keyword, KeywordValue(keyword))

Decorations == UnsupportedKeywords \cup {"additionalProperties", ""}

NoteSchema == JObj([type |-> JStr("string")])

\* The ways a schema holds a subschema: under a property (also one named
\* like a keyword), as items in object and in array form, as a member of
\* oneOf / anyOf / allOf, as the value schema of a map, as the schema of
\* the additional properties of an object with properties.
Holders ==
  {"property note", "property title", "property examples", "items", "items array",
   "oneOf", "anyOf", "allOf", "map", "additionalProperties"}

Hold(holder, child) ==
  CASE holder = "property note" ->
         JObj([type |-> JStr("object"), properties |-> JObj([note |-> child])])
    [] holder = "property title" ->
         JObj([type |-> JStr("object"), properties |-> JObj([title |-> child])])
    [] holder = "property examples" ->
         JObj([type |-> JStr("object"), properties |-> JObj([examples |-> child])])
    [] holder = "items" -> JObj([type |-> JStr("array"), items |-> child])
    [] holder = "items array" -> JObj([type |-> JStr("array"), items |-> JArr(<<child>>)])
    [] holder = "oneOf" -> JObj([oneOf |-> JArr(<<child>>)])
    [] holder = "anyOf" -> JObj([anyOf |-> JArr(<<child, NoteSchema>>)])
    [] holder = "allOf" -> JObj([allOf |-> JArr(<<child>>)])
    [] holder = "map" -> JObj([type |-> JStr("object"), additionalProperties |-> child])
    [] holder = "additionalProperties" ->
         JObj([type |-> JStr("object"), properties |-> JObj([note |-> NoteSchema]),
               additionalProperties |-> child])

\* Schemas nested depth deep whose innermost node carries one of the
\* keywords and whose other nodes may carry a title.
RECURSIVE KeywordSchemas(_)
KeywordSchemas(depth) ==
  IF depth = 0 THEN {Decorate(NoteSchema, keyword) : keyword \in Decorations}
  ELSE {Decorate(Hold(holder, child), keyword) :
          holder \in Holders, child \in KeywordSchemas(depth - 1), keyword \in {"title", ""}}

\* The schemas of the structs without renamed and without tuple fields
\* whose schema() returns.
StructSchemas ==
  {s \in {generate_struct_schema(desc, Crate(desc), {}) :
            desc \in {d \in StructDescs :
                        /\ d.rename_all = "" /\ d.fields[1].serde_rename = ""
                        /\ \A i \in 1..Len(d.fields) : ~is_tuple_type(d.fields[i].ty)}} :
     ~Overflows(s)}

\* Struct variants with a field named like the content key or the tag key
CollidingShapes ==
  { Variant("Echo", "named", <<Field("data", StringTy)>>),
    Variant("Flag", "named", <<Field("status", StringTy), Field("note", OptStringTy)>>) }

\* Adjacently tagged enums with at least one such variant
CollidingEnumDescs ==
  { [name |-> "TaskResult", tag |-> "status", content |-> "data", variants |-> vs] :
      vs \in { q \in UNION {[1..n -> VariantShapes \cup CollidingShapes] : n \in 1..MaxVariants} :
                 /\ \A i, j \in 1..Len(q) : i # j => q[i] # q[j]
                 /\ \E i \in 1..Len(q) : q[i] \in CollidingShapes } }

\* The schemas of the enums.
EnumSchemas == {generate_enum_schema(desc) : desc \in EnumDescs \cup CollidingEnumDescs}

\* The schemas explored, the keyword schemas nested up to nesting deep
GeminiInputs(nesting) ==
  UNION {KeywordSchemas(depth) : depth \in 0..nesting} \cup StructSchemas \cup EnumSchemas

InitGemini ==
  /\ CoordIdle /\ EnumIdle /\ LibIdleBut("gemini")
  /\ gem_pc = "start"
  /\ gem_schema \in GeminiInputs(MaxNesting)
  /\ gem_info = NoInfo
  /\ gem_out = JNull

NextGemini == AdaptSchema

SpecGemini == InitGemini /\ [][NextGemini]_vars

Adapted == gem_pc = "returned"

\* The keywords the constrained dialect does not accept.
ListedKeywords ==
  {"examples", "title", "$schema", "$id", "default", "$defs", "definitions", "$ref"}

\* The elements of the array under key, none when there is no such array.
MembersUnder(node, key) ==
  IF Has(node, key) /\ IsArr(node.o[key]) THEN Range(node.o[key].a) ELSE {}

\* The subschemas of a node, the elements of an items array included.
Subschemas(node) ==
  (IF Has(node, "properties") /\ IsObj(node.o["properties"])
     THEN {node.o["properties"].o[key] : key \in DOMAIN node.o["properties"].o} ELSE {})
  \cup (IF Has(node, "items") /\ ~IsArr(node.o["items"]) THEN {node.o["items"]} ELSE {})
  \cup MembersUnder(node, "items")
  \cup MembersUnder(node, "oneOf") \cup MembersUnder(node, "anyOf")
  \cup MembersUnder(node, "allOf")
  \cup (IF Has(node, "additionalProperties") THEN {node.o["additionalProperties"]} ELSE {})

\* The subschemas of a node without the elements of an items array.
SubschemasButItemsArray(node) == Subschemas(node) \ MembersUnder(node, "items")

NodeIsClean(node) ==
  IsObj(node) =>
    /\ DOMAIN node.o \cap ListedKeywords = {}
    /\ ~(Has(node, "additionalProperties") /\ IsBool(node.o["additionalProperties"]))

RECURSIVE IsClean(_)
IsClean(node) == NodeIsClean(node) /\ \A sub \in Subschemas(node) : IsClean(sub)

RECURSIVE IsCleanButItemsArray(_)
IsCleanButItemsArray(node) ==
  NodeIsClean(node) /\ \A sub \in SubschemasButItemsArray(node) : IsCleanButItemsArray(sub)

\* The root's properties named like a keyword are still there.
KeywordNamedPropertiesKept ==
  \A name \in {"title", "examples"} :
    Has(gem_schema, "properties") /\ Has(gem_schema.o["properties"], name)
      => Has(gem_out, "properties") /\ Has(gem_out.o["properties"], name)

\* C21: in every prepared schema no node reachable through properties,
\* items (an object or an array of schemas), oneOf, anyOf, allOf or
\* additionalProperties carries one of the listed keywords or a boolean
\* additionalProperties, and a property named title or examples is kept.
C21_NoUnsupportedKeywordReachable ==
  Adapted => IsClean(gem_out) /\ KeywordNamedPropertiesKept

\* C21 without the nodes reached through an items array.
C21_NoUnsupportedKeywordButItemsArray ==
  Adapted => IsCleanButItemsArray(gem_out) /\ KeywordNamedPropertiesKept


\* The schemas strip_gemini_unsupported_keywords_recursive calls itself on
\* from a node: property values, items, prefixItems elements, the members of
\* allOf, anyOf and of the oneOf after its downgrade, additionalProperties
StripVisits(obj) ==
  (IF Has(obj, "properties") /\ IsObj(obj.o["properties"])
     THEN {obj.o["properties"].o[name] : name \in DOMAIN obj.o["properties"].o} ELSE {})
  \cup (IF Has(obj, "items") THEN {obj.o["items"]} ELSE {})
  \cup MembersUnder(obj, "prefixItems") \cup MembersUnder(obj, "allOf")
  \cup MembersUnder(obj, "anyOf")
  \cup (IF Has(obj, "oneOf") /\ IsArr(obj.o["oneOf"])
          THEN Range(DowngradeOneOf(obj.o["oneOf"].a)) ELSE {})
  \cup (IF Has(obj, "additionalProperties") /\ IsObj(obj.o["additionalProperties"])
          THEN {obj.o["additionalProperties"]} ELSE {})

\* strip_gemini_unsupported_keywords_recursive takes the branch
\* `all_adjacently_tagged && adjacently_tagged_info.is_some()` at this node
\* or at a node it visits from it
RECURSIVE RewritesOneOf(_)
RewritesOneOf(node) ==
  /\ IsObj(node)
  /\ LET obj == MapWorkaround(StripBoolAdditional(DelAll(node, UnsupportedKeywords)))
     IN \/ Has(obj, "oneOf") /\ IsArr(obj.o["oneOf"]) /\ AllAdjacentlyTagged(obj.o["oneOf"].a)
        \/ \E sub \in StripVisits(obj) : RewritesOneOf(sub)

\* prepare_gemini_schema rewrote a oneOf of the request's schema
Rewrote == RewritesOneOf(resolve_refs_for_gemini(gem_schema))

\* C22: a reversal descriptor is produced exactly when the adaptation of the
\* same schema rewrote a oneOf from adjacent to internal tagging.
C22_DescriptorIffRewritten == Adapted => (gem_info.some <=> Rewrote)

\* C22, one direction: a oneOf the adaptation rewrote at the root, or below
\* properties and items only, has a descriptor.
C22_RootRewriteHasDescriptor ==
  Adapted /\ Has(gem_schema, "oneOf") /\ IsArr(gem_schema.o["oneOf"])
          /\ AllAdjacentlyTagged(gem_schema.o["oneOf"].a)
    => gem_info.some


\* The request's schema is a root $ref into its own $defs: what the struct
\* derive emits for a self-referential struct
IsRootRef(node) ==
  /\ Has(node, "$ref") /\ Has(node, "$defs")
  /\ RefResolves(Del(node, "$defs"), node.o["$defs"])

\* A $ref is left at this node or at one reachable from it
RECURSIVE HasRef(_)
HasRef(node) == Has(node, "$ref") \/ \E sub \in Subschemas(node) : HasRef(sub)

\* The node written at the depth limit: an object type and a description
\* that says so, whatever its capitalisation
IsDepthLimitNode(node) ==
  /\ IsObj(node) /\ DOMAIN node.o = {"type", "description"}
  /\ StrAt(node, "type", "object")
  /\ IsStr(node.o["description"])
  /\ StrContains(node.o["description"].s, "ecursive reference (depth limit reached)")

\* The depth-limit node is at this node or at one reachable from it
RECURSIVE HoldsDepthLimitNode(_)
HoldsDepthLimitNode(node) ==
  IsDepthLimitNode(node) \/ \E sub \in Subschemas(node) : HoldsDepthLimitNode(sub)

\* C24: for a root-$ref recursive schema the resolution leaves no $ref, and
\* the adapted schema holds the generic depth-limit node where the recursion
\* was cut.
C24_DepthLimitNodeReplacesRef ==
  Adapted /\ IsRootRef(gem_schema)
    => /\ ~HasRef(resolve_refs_for_gemini(gem_schema))
       /\ HoldsDepthLimitNode(gem_out)

\* C24, the part that holds: the adapted schema of a root-$ref schema has no
\* $ref and no $defs left.
C24_AdaptedHasNoRef == Adapted /\ IsRootRef(gem_schema) => ~HasRef(gem_out) /\ ~Has(gem_out, "$defs")


\* The names in a required list
RequiredNames(member) ==
  IF Has(member, "required") /\ IsArr(member.o["required"])
    THEN {member.o["required"].a[i].s : i \in 1..Len(member.o["required"].a)} ELSE {}

\* The member was flattened: its properties are the tag property and every
\* property of the content object, its required list the tag and the
\* content's required names
IsFlattened(before, after, d) ==
  LET content == before.o["properties"].o[d.content]
      content_props == content.o["properties"].o
  IN /\ Has(after, "properties") /\ IsObj(after.o["properties"])
     /\ DOMAIN after.o["properties"].o = {d.tag} \cup DOMAIN content_props
     /\ \A name \in DOMAIN content_props :
          after.o["properties"].o[name]
            = strip_gemini_unsupported_keywords_recursive(content_props[name])
     /\ d.tag \notin DOMAIN content_props
          => after.o["properties"].o[d.tag]
               = strip_gemini_unsupported_keywords_recursive(before.o["properties"].o[d.tag])
     /\ RequiredNames(after) = {d.tag} \cup RequiredNames(content)
     /\ RequiredNames(after) \subseteq DOMAIN after.o["properties"].o

\* The adaptation rewrote the oneOf at the root of the request's schema
RootRewritten ==
  /\ Adapted /\ Has(gem_schema, "oneOf") /\ IsArr(gem_schema.o["oneOf"])
  /\ AllAdjacentlyTagged(gem_schema.o["oneOf"].a)

\* A content property of the member is named like its content key or its tag key
Collides(member, d) ==
  {d.tag, d.content} \cap DOMAIN member.o["properties"].o[d.content].o["properties"].o # {}

\* C25: every adjacently tagged member of a rewritten oneOf ends with the tag
\* property plus every content property, the tag plus the content's required
\* names, and no content property is lost.
C25_MemberIsFlattened ==
  RootRewritten =>
    \A i \in 1..Len(gem_schema.o["oneOf"].a) :
      LET d == detect_adjacently_tagged_variant(gem_schema.o["oneOf"].a[i])
      IN d.some => IsFlattened(gem_schema.o["oneOf"].a[i], gem_out.o["oneOf"].a[i], d)

\* C25 for the members none of whose content properties is named like the
\* content key or the tag key.
C25_MemberIsFlattenedUnlessCollision ==
  RootRewritten =>
    \A i \in 1..Len(gem_schema.o["oneOf"].a) :
      LET d == detect_adjacently_tagged_variant(gem_schema.o["oneOf"].a[i])
      IN d.some /\ ~Collides(gem_schema.o["oneOf"].a[i], d)
           => IsFlattened(gem_schema.o["oneOf"].a[i], gem_out.o["oneOf"].a[i], d)


\* An object still in the internally tagged form: a listed tag with fields
\* beside it that are not gathered under the content key
InternalForm(json, info) ==
  /\ Has(json, info.tag_key) /\ IsStr(json.o[info.tag_key])
  /\ json.o[info.tag_key].s \in Range(info.tag_values)
  /\ DOMAIN json.o \notin {{info.tag_key}, {info.tag_key, info.content_key}}

\* An object in the internally tagged form is at this value or nested in it
RECURSIVE HoldsInternalForm(_, _)
HoldsInternalForm(json, info) ==
  \/ InternalForm(json, info)
  \/ IsObj(json) /\ \E key \in DOMAIN json.o : HoldsInternalForm(json.o[key], info)
  \/ IsArr(json) /\ \E i \in 1..Len(json.a) : HoldsInternalForm(json.a[i], info)

\* C23: the reshaper rewrites the tagged objects at every depth, also those
\* nested in the fields of a tagged object it rewrote.
C23_NestedTaggedObjectsRewritten ==
  reshape_pc = "returned" => ~HoldsInternalForm(reshape_out, reshape_info)

\* C23 for the values whose root is not itself rewritten.
C23_NestedRewrittenUnderUnmatched ==
  reshape_pc = "returned" /\ ~ListedTag => ~HoldsInternalForm(reshape_out, reshape_info)


\* The keywords the strict adapter is specified to recurse into
ClaimedKeywords ==
  {"properties", "items", "additionalItems", "prefixItems", "allOf", "anyOf", "oneOf", "$defs",
   "definitions", "not", "if", "then", "else", "patternProperties", "contains", "propertyNames"}

\* The schemas directly below a keyword of a node: the values of a map of
\* schemas, the elements of an array of schemas, or the one schema
SchemasBelow(node, keyword) ==
  IF ~Has(node, keyword) THEN {}
  ELSE IF keyword \in {"properties", "$defs", "definitions", "patternProperties"}
    THEN IF IsObj(node.o[keyword])
           THEN {node.o[keyword].o[name] : name \in DOMAIN node.o[keyword].o} ELSE {}
  ELSE IF keyword \in {"prefixItems", "allOf", "anyOf", "oneOf"}
    THEN IF IsArr(node.o[keyword]) THEN Range(node.o[keyword].a) ELSE {}
  ELSE {node.o[keyword]}

\* The node was strictified: it forbids additional properties and, when it
\* has properties, requires all of them
Strictified(node) ==
  /\ Has(node, "additionalProperties") /\ node.o["additionalProperties"] = JBool(FALSE)
  /\ (Has(node, "properties") /\ IsObj(node.o["properties"])
        /\ DOMAIN node.o["properties"].o # {})
       => /\ Has(node, "required") /\ IsArr(node.o["required"])
          /\ Range(node.o["required"].a) = {JStr(key) : key \in DOMAIN node.o["properties"].o}

\* Every object node reachable from node through the given keywords was
\* strictified
RECURSIVE ReachedAndStrict(_, _)
ReachedAndStrict(node, keywords) ==
  /\ (IsObj(node) /\ IsStrictTarget(node)) => Strictified(node)
  /\ \A keyword \in keywords : \A sub \in SchemasBelow(node, keyword) :
       ReachedAndStrict(sub, keywords)

\* C26: add_additional_properties_false strictifies the object nodes under
\* every keyword it is specified to recurse into, the elements of prefixItems
\* included.
C26_ReachesEveryClaimedKeyword ==
  strict_pc = "returned" => ReachedAndStrict(strict_out, ClaimedKeywords)

\* C26 for every claimed keyword but prefixItems.
C26_ReachesAllButPrefixItems ==
  strict_pc = "returned" => ReachedAndStrict(strict_out, ClaimedKeywords \ {"prefixItems"})


\* The text consists only of alphanumerics, '-', '.' and '_'
IsModelName(text) ==
  \A i \in 1..Len(text) :
    \/ IsAlphanumeric(SubSeq(text, i, i))
    \/ SubSeq(text, i, i) \in {"-", ".", "_"}

\* The position of the first quote character at or after from, 0 when none
RECURSIVE NextQuote(_, _)
NextQuote(text, from) ==
  IF from > Len(text) THEN 0
  ELSE IF SubSeq(text, from, from) \in {"'", "\""} THEN from
  ELSE NextQuote(text, from + 1)

\* The first quoted substring at or after from, in the order of the text,
\* that is a model name; "" when there is none
RECURSIVE FirstQuotedModelName(_, _)
FirstQuotedModelName(text, from) ==
  LET start == NextQuote(text, from)
      rest == SubSeq(text, start + 1, Len(text))
      end == StrFind(rest, SubSeq(text, start, start))
  IN IF start = 0 THEN ""
     ELSE IF end = 0 THEN FirstQuotedModelName(text, start + 1)
     ELSE IF IsModelName(SubSeq(rest, 1, end - 1)) THEN SubSeq(rest, 1, end - 1)
     ELSE FirstQuotedModelName(text, start + end + 1)

\* A 404 that mentions a model was classified without a model hint: the
\* model of the error is the one extract_model_from_error found
ModelExtracted ==
  /\ Classified /\ api_request.status = 404
  /\ api_result.out.kind.kind = "InvalidModel"
  /\ api_result.via = "check_response_status" \/ api_request.model_hint = ""

\* C27: the model extracted from an error body is the first quoted substring
\* of the body, in the order of the text, that consists only of
\* alphanumerics, '-', '.' and '_', also when an earlier quoted substring
\* does not qualify.
C27_FirstQualifyingQuotedIsFound ==
  ModelExtracted =>
    LET name == FirstQuotedModelName(LowerStr(api_request.body), 1)
    IN api_result.out.kind.model = (IF name # "" THEN name ELSE "unknown")

\* C27 for the bodies with at most one quoted substring.
C27_OnlyQuotedIsFound ==
  ModelExtracted /\ api_request.body \notin
      {"model 'my model' unknown - try 'gpt-4o'", "no \"gpt-9\" model - use 'gpt-4'"} =>
    LET name == FirstQuotedModelName(LowerStr(api_request.body), 1)
    IN api_result.out.kind.model = (IF name # "" THEN name ELSE "unknown")


\* The first list is a prefix of the second
IsPrefix(shorter, longer) ==
  Len(shorter) <= Len(longer) /\ SubSeq(longer, 1, Len(shorter)) = shorter

\* C28: within one coordinator run the message list handed to an attempt is
\* a prefix of the list handed to the next one (and so, the relation being
\* transitive, of the list of every later attempt), the working history
\* extends the list last handed out, and the first message is always the
\* user message with the original prompt.
C28_HistoryIsAppendOnly ==
  /\ calls >= 1 => /\ sent # <<>> /\ sent[1] = User(PromptText)
                   /\ IsPrefix(sent, messages) /\ messages[1] = User(PromptText)
  /\ calls >= 2 => IsPrefix(prev_sent, sent) /\ prev_sent[1] = User(PromptText)

\* C28 witness: the third attempt of a run gets the two exchanges of the
\* failures before it after the list of the second attempt.
C28_Witness ==
  /\ pc = "await" /\ calls = 3
  /\ Len(prev_sent) = 3 /\ Len(sent) = 5 /\ IsPrefix(prev_sent, sent)
  /\ sent[1] = User(PromptText)


(***************************************************************************)
(* The entry points of GeminiClient (src/backend/gemini.rs): materialize   *)
(* and materialize_with_metadata hand a closure over materialize_internal  *)
(* to generate_with_retry_with_history with self.config.max_retries;       *)
(* materialize_with_media calls materialize_internal itself.               *)
(***************************************************************************)
EntryPoints == {"materialize", "materialize_with_metadata", "materialize_with_media"}

\* The media slices passed to materialize_with_media
MediaSlices == {<<>>, <<"photo.png">>}

\* ChatMessage::user_with_media
UserWithMedia(content, media) == [ChatMessage("user", content) EXCEPT !.media = media]

\* An entry point that always calls the coordinator
EveryEntryUsesCoordinator(entry) == TRUE

\* The entry point calls generate_with_retry_with_history
EntryUsesCoordinator(entry) == entry \in {"materialize", "materialize_with_metadata"}

\* The calls of the entry points: the client's max_retries, the media
\* passed (none but to materialize_with_media), what materialize_internal
\* may return in each attempt, and the locals of the coordinator
MatCalls ==
  { c \in [entry : EntryPoints, max_retries : InvRetries, media : MediaSlices,
           outcomes : {OutcomesByAttempt}, max_attempts : {0}, attempt : {0},
           returned : {<<>>}] :
      c.media = <<>> \/ c.entry = "materialize_with_media" }

\* materialize / materialize_with_metadata: the coordinator creates its
\* history and makes its first call of the closure.
MaterializeThroughCoordinator ==
  /\ mat_pc = "start" /\ EntryUsesCoordinator(mat_call.entry)
  /\ mat_messages' = <<User(PromptText)>>
  /\ mat_calls' = <<<<User(PromptText)>>>>
  /\ mat_call' = [mat_call EXCEPT !.max_attempts =
                    IF Retrying(mat_call.max_retries) THEN MaxAttempts(mat_call.max_retries.n)
                    ELSE 0]
  /\ mat_pc' = "await"
  /\ UNCHANGED <<mat_result, outside_mat>>

\* materialize_with_media: materialize_internal is called with the one
\* message user_with_media(prompt, media).
MaterializeWithMedia ==
  /\ mat_pc = "start" /\ ~EntryUsesCoordinator(mat_call.entry)
  /\ mat_calls' = <<<<UserWithMedia(PromptText, mat_call.media)>>>>
  /\ mat_pc' = "await_direct"
  /\ UNCHANGED <<mat_call, mat_messages, mat_result, outside_mat>>

\* materialize_with_media: the call returns and its result, the error
\* without its context, is returned.
MediaCallReturns ==
  /\ mat_pc = "await_direct"
  /\ \E out \in mat_call.outcomes[0] :
       /\ mat_result' = MapErr(out)
       /\ mat_call' = [mat_call EXCEPT !.returned = Append(@, out)]
  /\ mat_pc' = "returned"
  /\ UNCHANGED <<mat_messages, mat_calls, outside_mat>>

\* The coordinator returns the result of the closure: the only attempt
\* when there are no retries, a success, a last attempt or an error that is
\* not retried.
CoordinatorReturns ==
  /\ mat_pc = "await"
  /\ \E out \in mat_call.outcomes[mat_call.attempt] :
       /\ Retrying(mat_call.max_retries) =>
            Decision(out, IsLastAttempt(mat_call.attempt, mat_call.max_attempts))
              \in {"return_ok", "return_err"}
       /\ mat_result' = MapErr(out)
       /\ mat_call' = [mat_call EXCEPT !.returned = Append(@, out)]
  /\ mat_pc' = "returned"
  /\ UNCHANGED <<mat_messages, mat_calls, outside_mat>>

\* The coordinator retries: after a validation error the failed exchange is
\* pushed onto the history, after a retryable API error the history stays.
CoordinatorRetries ==
  /\ mat_pc = "await" /\ Retrying(mat_call.max_retries)
  /\ \E out \in mat_call.outcomes[mat_call.attempt] :
       LET decision == Decision(out, IsLastAttempt(mat_call.attempt, mat_call.max_attempts))
       IN /\ decision \in {"retry_validation", "retry_api"}
          /\ mat_messages' = IF decision = "retry_validation"
                               THEN HistoryAfterValidationFailure(mat_messages, out.ctx)
                               ELSE mat_messages
          /\ mat_call' = [mat_call EXCEPT !.returned = Append(@, out)]
  /\ mat_pc' = "sleep"
  /\ UNCHANGED <<mat_calls, mat_result, outside_mat>>

\* The sleep returns and the next attempt calls the closure with a copy of
\* the history.
CoordinatorWakes ==
  /\ mat_pc = "sleep" /\ mat_call.attempt + 1 < mat_call.max_attempts
  /\ mat_call' = [mat_call EXCEPT !.attempt = @ + 1]
  /\ mat_calls' = Append(mat_calls, mat_messages)
  /\ mat_pc' = "await"
  /\ UNCHANGED <<mat_messages, mat_result, outside_mat>>

InitMaterialize ==
  /\ CoordIdle /\ EnumIdle /\ LibIdleBut("materialize")
  /\ mat_pc = "start" /\ mat_call \in MatCalls
  /\ mat_messages = <<>> /\ mat_calls = <<>> /\ mat_result = <<>>

NextMaterialize ==
  MaterializeThroughCoordinator \/ MaterializeWithMedia \/ MediaCallReturns
    \/ CoordinatorReturns \/ CoordinatorRetries \/ CoordinatorWakes

SpecMaterialize == InitMaterialize /\ [][NextMaterialize]_vars

\* Every call of materialize_internal so far failed in a way the coordinator
\* retries
AllRetried ==
  \A i \in 1..Len(mat_call.returned) :
    /\ mat_call.returned[i].tag = "err"
    /\ IsValidationError(mat_call.returned[i].err) \/ is_retryable(mat_call.returned[i].err)

\* C29: materialize_with_media makes exactly one backend call, with the
\* single message user_with_media(prompt, media), and returns that call's
\* result or error whatever max_retries is configured; materialize and
\* materialize_with_metadata start from user(prompt) and make up to
\* max_retries + 1 calls, all of them when every call fails retryably.
C29_MediaBypassesCoordinator ==
  mat_pc = "returned" =>
    /\ mat_call.entry = "materialize_with_media" =>
         /\ mat_calls = <<<<UserWithMedia(PromptText, mat_call.media)>>>>
         /\ Len(mat_call.returned) = 1
         /\ mat_result = MapErr(mat_call.returned[1])
    /\ mat_call.entry \in {"materialize", "materialize_with_metadata"} =>
         /\ mat_calls[1] = <<User(PromptText)>>
         /\ Len(mat_calls) = Len(mat_call.returned)
         /\ Len(mat_calls) <= (IF Retrying(mat_call.max_retries)
                                 THEN mat_call.max_retries.n + 1 ELSE 1)
         /\ AllRetried /\ Retrying(mat_call.max_retries) =>
              Len(mat_calls) = mat_call.max_retries.n + 1
         /\ mat_result = MapErr(mat_call.returned[Len(mat_call.returned)])

\* C29 witness: with max_retries = Some(3) a validation error of the one
\* call of materialize_with_media is returned at once.
C29_Witness ==
  /\ mat_pc = "returned" /\ mat_call.entry = "materialize_with_media"
  /\ mat_call.max_retries = SomeRetries(3) /\ mat_call.media = <<"photo.png">>
  /\ Len(mat_calls) = 1
  /\ mat_result.tag = "err" /\ IsValidationError(mat_result.err)


(***************************************************************************)
(* Claims about the references of a derived schema document.               *)
(***************************************************************************)
\* The values of the "$ref" keys of j, at any depth.
RECURSIVE RefValues(_)
RefValues(j) ==
  IF IsObj(j)
    THEN (IF "$ref" \in DOMAIN j.o THEN {j.o["$ref"]} ELSE {})
         \cup UNION {RefValues(j.o[key]) : key \in DOMAIN j.o}
  ELSE IF IsArr(j) THEN UNION {RefValues(j.a[i]) : i \in 1..Len(j.a)}
  ELSE {}

\* The references "#/$defs/X" the "$defs" map at the root of document defines.
ResolvableRefs(document) ==
  IF Has(document, "$defs") /\ IsObj(document.o["$defs"])
    THEN {JStr("#/$defs/" \o defined) : defined \in DOMAIN document.o["$defs"].o}
  ELSE {}

\* Every "$ref" of document names a key of the "$defs" at its root.
RefsResolve(document) == RefValues(document) \subseteq ResolvableRefs(document)

\* desc has a field that embeds the self-referential struct Tree.
EmbedsRecursiveStruct(desc) ==
  \E i \in 1..Len(desc.fields) : Mentions(desc.fields[i].ty, TreeStruct.name)

\* C30: in every schema document schema() returns, each "$ref": "#/$defs/X"
\* at any depth names a key X of the "$defs" map at the document root, also
\* when a self-referential struct is embedded as a field (directly, in an
\* array or as a map value) of another struct.
C30_EveryRefNamesRootDef ==
  struct_pc = "returned" => RefsResolve(struct_schema)

\* C30 for the documents of structs that embed no other self-referential
\* struct: every "$ref" names the one key of the root "$defs".
C30_RefsResolveWithoutEmbeddedRecursive ==
  (struct_pc = "returned" /\ ~EmbedsRecursiveStruct(struct_desc)) =>
    RefsResolve(struct_schema)

\* A returned document with a reference, of a struct embedding no other
\* self-referential struct.
C30_ResolvedRefReached ==
  /\ struct_pc = "returned" /\ ~EmbedsRecursiveStruct(struct_desc)
  /\ RefValues(struct_schema) # {}

====
